---- MODULE Spec2Model ----
(***************************************************************************)
(* Tower-Defense simulation engine (engine/sim.ts, engine/effects.ts,      *)
(* engine/targeting.ts, engine/grid.ts, engine/constants.ts) and the       *)
(* commands of the game store (state/store.ts).                            *)
(*                                                                         *)
(* Numbers.  The engine computes with IEEE doubles; the model computes     *)
(* with exact fixed-point integers:                                        *)
(*   - a time t (seconds) is the integer t * TimeScale;                    *)
(*   - a coordinate or a path progress c (tiles) is the integer            *)
(*     c * PosScale, PosScale = 4 * TimeScale, so that speed * dt of every *)
(*     mob (speeds are multiples of 0.25 tile/s once slowed by 0.5) is an  *)
(*     integer;                                                            *)
(*   - Math.sqrt is the integer square root of the scaled square, and a    *)
(*     quotient is rounded to the nearest unit.                            *)
(* Comparisons of distances against a range or a radius are done on the    *)
(* squares and are exact.  An absent optional field (undefined) is Undef.  *)
(***************************************************************************)
EXTENDS Integers, Sequences, FiniteSets, TLC

VARIABLES game, op, replayEqual, spawnLog, store

vars == <<game, op, replayEqual, spawnLog, store>>

----------------------------------------------------------------------------
(* Units and bounds *)

TimeScale == 120
PosScale == 480

\* width of the map explored by the model (MAP_SIZE.width is 20 in the source)
MapWidth == 4
\* Spec: the engine is ticked while tickCount is below this
MaxTicks == 3
\* Spec: towers the player places in one game
MaxTowers == 1
\* Spec: waves the player starts by hand
MaxWaveStarts == 2

\* SpecCombat: ticks and towers of one fight
CombatTicks == 7
CombatTowers == 2

\* SpecBuild: ticks and towers of a building player
BuildTicks == 3
BuildTowers == 2

\* SpecFinale: ticks and towers of a game whose last wave the player skips to
FinaleTicks == 5
FinaleTowers == 1

\* SpecRush: ticks of a game in which the player builds nothing
RushTicks == 112
WaveTicks == 23
WaveStarts == 2
WaveTowers == 1
UnitMobs == 3
UITicks == 6
UITowers == 1

\* SpecFlight: ticks and towers of a fight prepared before the first tick
FlightTicks == 8
FlightTowers == 2

\* SpecSplash: ticks of a fight with a frost tower and a cannon
SplashTicks == 8

\* SpecDelay: ticks of the game, and waves the player skips
DelayTicks == 10
DelayStarts == 4
\* SpecAge: ticks and towers
AgeTicks == 5
AgeTowers == 2
\* SpecPhases: half-second ticks before the free ones, ticks in all, and ticks
\* of a game in which Next Wave was pressed
PhaseLead == 18
PhaseTicks == 23
PhaseRushTicks == 7
\* SpecLoop: update is called while tickCount is below this
LoopTicks == 4
\* SpecSlow: ticks
SlowTicks == 6
\* SpecBlast: mobs in the drawn list
BlastMobs == 2
\* SpecLeave: the engine is ticked while tickCount is below this
LeaveTicks == 64
\* SpecBank: towers, ticks, wave starts
BankTowers == 6
BankTicks == 2
BankStarts == 2
\* SpecStarts: ticks
StartsTicks == 2
\* SpecGrid: blocked tiles drawn in the corridor
GridBlocked == 3

MAP_HEIGHT == 15
Undef == -1

\* the values Math.random() is drawn from
Rand == {0, 1}

\* dt of one advanceTick call: 1/8 s and 1/2 s
DtSet == {TimeScale \div 8, TimeScale \div 2}

----------------------------------------------------------------------------
(* Arithmetic helpers *)

Min(a, b) == IF a <= b THEN a ELSE b
Max(a, b) == IF a >= b THEN a ELSE b

\* a truthy JavaScript number: neither undefined nor 0
Truthy(n) == n # Undef /\ n # 0

RECURSIVE IsqrtIter(_, _, _)
IsqrtIter(n, lo, hi) ==
    IF lo >= hi THEN lo
    ELSE LET mid == (lo + hi + 1) \div 2
         IN IF mid * mid <= n THEN IsqrtIter(n, mid, hi)
            ELSE IsqrtIter(n, lo, mid - 1)

\* Math.sqrt, rounded down to a unit
Sqrt(n) == IsqrtIter(n, 0, Min(n, 46340))

\* a / b rounded to the nearest unit, b > 0
RoundDiv(a, b) == (2 * a + b) \div (2 * b)

RemoveAt(s, i) == SubSeq(s, 1, i - 1) \o SubSeq(s, i + 1, Len(s))

\* Array.prototype.findIndex on ids; 0 when absent
FindIndexById(s, id) ==
    IF \E i \in 1..Len(s) : s[i].id = id
    THEN CHOOSE i \in 1..Len(s) : s[i].id = id /\ \A j \in 1..(i - 1) : s[j].id # id
    ELSE 0

----------------------------------------------------------------------------
(* engine/constants.ts *)

TOWER_TYPES == {"arrow", "cannon", "frost"}

\* range in position units, rate in tenths of a shot per second,
\* projectileSpeed in tiles per second, slowAmount in tenths
TOWER_DEFINITIONS(type) ==
    CASE type = "arrow" ->
           [type |-> "arrow", baseCost |-> 20, range |-> 3 * PosScale, rate |-> 20,
            damage |-> 25, projectileSpeed |-> 8, splashRadius |-> Undef,
            slowDuration |-> Undef, slowAmount |-> Undef, targetingStrategy |-> "first"]
      [] type = "cannon" ->
           [type |-> "cannon", baseCost |-> 40, range |-> (5 * PosScale) \div 2, rate |-> 8,
            damage |-> 80, projectileSpeed |-> 4, splashRadius |-> (3 * PosScale) \div 2,
            slowDuration |-> Undef, slowAmount |-> Undef, targetingStrategy |-> "strongest"]
      [] type = "frost" ->
           [type |-> "frost", baseCost |-> 30, range |-> (5 * PosScale) \div 2, rate |-> 15,
            damage |-> 15, projectileSpeed |-> 6, splashRadius |-> Undef,
            slowDuration |-> 3 * TimeScale, slowAmount |-> 5, targetingStrategy |-> "first"]

\* speed in quarter tiles per second
MOB_DEFINITIONS(type) ==
    CASE type = "normal" -> [type |-> "normal", hp |-> 50, speed |-> 4, armor |-> 0, bounty |-> 10]
      [] type = "fast" -> [type |-> "fast", hp |-> 30, speed |-> 8, armor |-> 0, bounty |-> 15]
      [] type = "tank" -> [type |-> "tank", hp |-> 150, speed |-> 2, armor |-> 5, bounty |-> 25]
      [] type = "flying" -> [type |-> "flying", hp |-> 80, speed |-> 6, armor |-> 2, bounty |-> 30]

\* one wave entry; delay and spacing in tenths of a second
Entry(delay, kind, count, spacing) ==
    [delay |-> (delay * TimeScale) \div 10, kind |-> kind, count |-> count,
     spacing |-> (spacing * TimeScale) \div 10]

WAVE_DEFINITIONS ==
    << [id |-> 1, entries |-> << Entry(0, "normal", 10, 10) >>],
       [id |-> 2, entries |-> << Entry(0, "normal", 8, 8), Entry(50, "fast", 5, 6) >>],
       [id |-> 3, entries |-> << Entry(0, "normal", 12, 7), Entry(80, "tank", 2, 20) >>],
       [id |-> 4, entries |-> << Entry(0, "fast", 8, 5), Entry(40, "normal", 10, 6),
                                 Entry(100, "tank", 3, 15) >>],
       [id |-> 5, entries |-> << Entry(0, "flying", 3, 10), Entry(50, "normal", 15, 5) >>],
       [id |-> 6, entries |-> << Entry(0, "fast", 12, 4), Entry(50, "tank", 4, 12),
                                 Entry(100, "flying", 5, 8) >>],
       [id |-> 7, entries |-> << Entry(0, "normal", 20, 4), Entry(80, "fast", 10, 3),
                                 Entry(120, "tank", 5, 10) >>],
       [id |-> 8, entries |-> << Entry(0, "flying", 8, 6), Entry(50, "tank", 6, 10),
                                 Entry(120, "fast", 15, 3) >>],
       [id |-> 9, entries |-> << Entry(0, "normal", 25, 3), Entry(80, "tank", 8, 8),
                                 Entry(150, "flying", 10, 5) >>],
       [id |-> 10, entries |-> << Entry(0, "fast", 20, 2), Entry(40, "tank", 10, 6),
                                  Entry(100, "flying", 15, 4), Entry(160, "normal", 30, 2) >>] >>

----------------------------------------------------------------------------
(* engine/grid.ts *)

GridIsValid(x, y) == x >= 0 /\ x < MapWidth /\ y >= 0 /\ y < MAP_HEIGHT

pathY == MAP_HEIGHT \div 2

\* createDefaultMap: the tile grid
TileAt(x, y) ==
    IF (y = pathY - 2 /\ x \in {5, 6}) \/ (y = pathY + 2 /\ x \in {8, 9}) THEN "blocked"
    ELSE IF y = pathY THEN "path"
    ELSE "buildable"

isBuildable(pos) == GridIsValid(pos[1], pos[2]) /\ TileAt(pos[1], pos[2]) = "buildable"

spawnPoint == <<0, pathY>>
basePosition == <<MapWidth - 1, pathY>>

\* map.paths[0]: the route A* finds from the spawn point to the base on the
\* default map is the path row itself; waypoint i (0-based) is <<i, pathY>>
PathLen == MapWidth
PathAt(i) == <<i, pathY>>

\* Pathfinder.  A map is [tiles, paths, spawnPoints, basePosition]: tiles[y][x]
\* for the cells Grid.isValid accepts.  An A* node is [pos, g, h, parent], its
\* parent given by the parent's position (NoNode for the start node): a node
\* is the parent of another only once it is closed, and a closed node is
\* never changed, so `closed` keeps [pos, parent] of every closed node.
NoNode == <<>>

\* Seeded fault for C32: Pathfinder.isWalkable, but every tile on the grid is walkable
isWalkableAny(m, pos) == GridIsValid(pos[1], pos[2])

isWalkable(m, pos) ==
    /\ GridIsValid(pos[1], pos[2])
    /\ m.tiles[pos[2]][pos[1]] \in {"path", "buildable"}

\* Seeded fault for C33: the open-set scan of findPath, but the node opened
\* last is taken whatever its f
lastOpened(openSet) == Len(openSet)

\* the open-set scan of findPath: the first index whose f = g + h is lowest
lowestF(openSet) ==
    CHOOSE i \in 1..Len(openSet) :
       /\ \A j \in 1..Len(openSet) :
             openSet[i].g + openSet[i].h <= openSet[j].g + openSet[j].h
       /\ \A j \in 1..(i - 1) :
             openSet[j].g + openSet[j].h > openSet[i].g + openSet[i].h

findPath(m, start, end) ==
    LET heuristic(a, b) ==
            (IF a[1] >= b[1] THEN a[1] - b[1] ELSE b[1] - a[1])
            + (IF a[2] >= b[2] THEN a[2] - b[2] ELSE b[2] - a[2])
        \* Grid.getNeighbors: up, right, down, left, those on the grid
        getNeighbors(pos) ==
            LET onGrid(n) == GridIsValid(n[1], n[2])
            IN SelectSeq(<<<<pos[1], pos[2] - 1>>, <<pos[1] + 1, pos[2]>>,
                           <<pos[1], pos[2] + 1>>, <<pos[1] - 1, pos[2]>>>>, onGrid)
        \* the body of the neighbor loop
        visit(openSet, closed, current, neighborPos) ==
            IF neighborPos \in {c.pos : c \in closed} \/ ~isWalkable(m, neighborPos)
            THEN openSet
            ELSE LET tentativeG == current.g + 1
                     existing == {k \in 1..Len(openSet) : openSet[k].pos = neighborPos}
                 IN IF existing = {}
                    THEN Append(openSet, [pos |-> neighborPos, g |-> tentativeG,
                                          h |-> heuristic(neighborPos, end),
                                          parent |-> current.pos])
                    ELSE LET k == CHOOSE k \in existing : \A j \in existing : k <= j
                         IN IF tentativeG < openSet[k].g
                            THEN [openSet EXCEPT ![k].g = tentativeG,
                                                 ![k].parent = current.pos]
                            ELSE openSet
        RECURSIVE visitFrom(_, _, _, _, _)
        visitFrom(openSet, closed, current, neighbors, i) ==
            IF i > Len(neighbors) THEN openSet
            ELSE visitFrom(visit(openSet, closed, current, neighbors[i]),
                           closed, current, neighbors, i + 1)
        \* reconstructPath: the positions from the start node down to `pos`
        RECURSIVE reconstructPath(_, _, _)
        reconstructPath(pos, parent, closed) ==
            IF parent = NoNode THEN <<pos>>
            ELSE LET c == CHOOSE c \in closed : c.pos = parent
                 IN Append(reconstructPath(c.pos, c.parent, closed), pos)
        \* the while loop
        RECURSIVE search(_, _)
        search(openSet, closed) ==
            IF Len(openSet) = 0 THEN <<>>
            ELSE LET currentIndex == lowestF(openSet)
                     current == openSet[currentIndex]
                     closedNow == closed \cup {[pos |-> current.pos, parent |-> current.parent]}
                 IN IF current.pos = end
                    THEN reconstructPath(current.pos, current.parent, closed)
                    ELSE search(visitFrom(RemoveAt(openSet, currentIndex), closedNow,
                                          current, getNeighbors(current.pos), 1),
                                closedNow)
    IN IF ~GridIsValid(start[1], start[2]) \/ ~GridIsValid(end[1], end[2]) THEN <<>>
       ELSE search(<<[pos |-> start, g |-> 0, h |-> heuristic(start, end),
                      parent |-> NoNode]>>, {})

findMultiplePaths(m) ==
    LET found(path) == Len(path) > 0
    IN SelectSeq([i \in 1..Len(m.spawnPoints) |->
                     findPath(m, m.spawnPoints[i], m.basePosition)], found)

\* createDefaultMap
createDefaultMap ==
    LET map == [tiles |-> [y \in 0..(MAP_HEIGHT - 1) |->
                             [x \in 0..(MapWidth - 1) |-> TileAt(x, y)]],
                paths |-> <<>>,
                spawnPoints |-> <<spawnPoint>>,
                basePosition |-> basePosition]
    IN [map EXCEPT !.paths = findMultiplePaths(map)]

\* Grid.gridToWorld, in position units
gridToWorld(x, y) == <<x * PosScale + PosScale \div 2, y * PosScale + PosScale \div 2>>

\* Grid.distanceSquared between two points in position units
distanceSquared(ax, ay, bx, by) == (ax - bx) * (ax - bx) + (ay - by) * (ay - by)

----------------------------------------------------------------------------
(* engine/effects.ts *)

\* slowMultiplier is kept in tenths; Math.max(0.1, amount)
\* Seeded fault for C30: applySlow, but the existing slow is kept only if it
\* is both stronger and longer
applySlowEither(mob, duration, amount, currentTime) ==
    LET newSlowUntil == currentTime + duration
        newSlowMultiplier == Max(1, amount)
    IN IF Truthy(mob.slowUntil) /\ mob.slowUntil > currentTime
          /\ (Truthy(mob.slowMultiplier) /\ mob.slowMultiplier < newSlowMultiplier)
          /\ mob.slowUntil > newSlowUntil
       THEN mob
       ELSE [mob EXCEPT !.slowUntil = newSlowUntil, !.slowMultiplier = newSlowMultiplier]

applySlow(mob, duration, amount, currentTime) ==
    LET newSlowUntil == currentTime + duration
        newSlowMultiplier == Max(1, amount)
    IN IF Truthy(mob.slowUntil) /\ mob.slowUntil > currentTime
          /\ (   (Truthy(mob.slowMultiplier) /\ mob.slowMultiplier < newSlowMultiplier)
              \/ mob.slowUntil > newSlowUntil)
       THEN mob
       ELSE [mob EXCEPT !.slowUntil = newSlowUntil, !.slowMultiplier = newSlowMultiplier]

\* Seeded fault for C40: updateMobSpeed, but a slowed mob stands still
updateMobSpeedFrozen(mob, currentTime) ==
    IF Truthy(mob.slowUntil) /\ mob.slowUntil <= currentTime THEN mob.speed * 10
    ELSE IF Truthy(mob.slowMultiplier) THEN 0
    ELSE mob.speed * 10

\* the current speed in fortieths of a tile per second (speed * multiplier)
updateMobSpeed(mob, currentTime) ==
    IF Truthy(mob.slowUntil) /\ mob.slowUntil <= currentTime THEN mob.speed * 10
    ELSE IF Truthy(mob.slowMultiplier) THEN mob.speed * mob.slowMultiplier
    ELSE mob.speed * 10

cleanupExpiredEffects(mob, currentTime) ==
    IF Truthy(mob.slowUntil) /\ mob.slowUntil <= currentTime
    THEN [mob EXCEPT !.slowUntil = Undef, !.slowMultiplier = Undef]
    ELSE mob

\* Seeded fault for C18: getEffectiveDamage, but without the floor of 1
getEffectiveDamageUnfloored(baseDamage, armor) == baseDamage - armor

getEffectiveDamage(baseDamage, armor) == Max(1, baseDamage - armor)

applyDamage(mob, damage) ==
    LET newHp == Max(0, mob.hp - damage)
    IN [mob EXCEPT !.hp = newHp, !.isDead = (newHp <= 0)]

----------------------------------------------------------------------------
(* engine/targeting.ts *)

\* distance from a tower's tile (grid coordinates) to a mob's position, squared
TowerMobDist2(tower, mob) ==
    distanceSquared(tower.tile[1] * PosScale, tower.tile[2] * PosScale, mob.x, mob.y)

\* The value a strategy's scan compares, with the sign that makes every scan
\* a search for the greatest: findLastTarget, findWeakestTarget and
\* findNearestTarget keep the mob whose value is < the best so far.
StrategyKey(strategy, tower, mob) ==
    CASE strategy = "first" -> mob.prog
      [] strategy = "last" -> 0 - mob.prog
      [] strategy = "strongest" -> mob.hp
      [] strategy = "weakest" -> 0 - mob.hp
      [] strategy = "nearest" -> 0 - TowerMobDist2(tower, mob)
      [] OTHER -> mob.prog

\* The scan's state before the first mob: best = null (0) and the initial
\* bestProgress -1 (first), 2 (last), bestHp -1 (strongest); Infinity (weakest,
\* nearest) is a bound every number beats.  pathProgress 2 is 2 * (PathLen - 1)
\* tiles of progress.
scanStart(strategy) ==
    CASE strategy = "last" -> [best |-> 0, key |-> 0 - 2 * (PathLen - 1) * PosScale,
                               infinite |-> FALSE]
      [] strategy = "strongest" -> [best |-> 0, key |-> -1, infinite |-> FALSE]
      [] strategy = "weakest" -> [best |-> 0, key |-> 0, infinite |-> TRUE]
      [] strategy = "nearest" -> [best |-> 0, key |-> 0, infinite |-> TRUE]
      [] OTHER -> [best |-> 0, key |-> -1, infinite |-> FALSE]

\* for (const mob of mobs) if (value strictly better than best so far) keep it;
\* inRange lists the indices (in mobs) of the filtered mobs, k is the position
\* of the scan
RECURSIVE scanTarget(_, _, _, _, _, _)
scanTarget(strategy, tower, mobs, inRange, k, acc) ==
    IF k > Len(inRange) THEN acc.best
    ELSE LET value == StrategyKey(strategy, tower, mobs[inRange[k]])
         IN IF acc.infinite \/ value > acc.key
            THEN scanTarget(strategy, tower, mobs, inRange, k + 1,
                            [best |-> inRange[k], key |-> value, infinite |-> FALSE])
            ELSE scanTarget(strategy, tower, mobs, inRange, k + 1, acc)

\* Seeded fault for C17: findTarget, but mobs that reached the base stay eligible
findTargetAtBase(tower, mobs, strategy) ==
    LET inRange == SelectSeq([i \in 1..Len(mobs) |-> i],
                             LAMBDA i : /\ ~mobs[i].isDead
                                        /\ TowerMobDist2(tower, mobs[i])
                                              <= tower.range * tower.range)
    IN IF Len(inRange) = 0 THEN 0
       ELSE scanTarget(strategy, tower, mobs, inRange, 1, scanStart(strategy))

\* index in mobs of the target, 0 for null
findTarget(tower, mobs, strategy) ==
    LET inRange == SelectSeq([i \in 1..Len(mobs) |-> i],
                             LAMBDA i : /\ ~mobs[i].isDead
                                        /\ ~mobs[i].reachedEnd
                                        /\ TowerMobDist2(tower, mobs[i])
                                              <= tower.range * tower.range)
    IN IF Len(inRange) = 0 THEN 0
       ELSE scanTarget(strategy, tower, mobs, inRange, 1, scanStart(strategy))

\* indices of the mobs getMobsInSplashRadius keeps
getMobsInSplashRadius(cx, cy, radius, mobs) ==
    {i \in 1..Len(mobs) :
        /\ ~mobs[i].isDead
        /\ ~mobs[i].reachedEnd
        /\ distanceSquared(cx, cy, mobs[i].x, mobs[i].y) <= radius * radius}

\* Seeded fault for C31: splashDamage without the falloff
splashDamageFlat(cx, cy, radius, baseDamage, mob) == Max(1, baseDamage)

\* damage applySplashDamage gives one mob of the splash set:
\* max(1, floor(base * (1 - (distance / radius) * 0.5)))
splashDamage(cx, cy, radius, baseDamage, mob) ==
    LET dist == Sqrt(distanceSquared(cx, cy, mob.x, mob.y))
    IN Max(1, (baseDamage * (2 * radius - dist)) \div (2 * radius))

----------------------------------------------------------------------------
(* engine/sim.ts: entities *)

NoId == [k |-> "none", t |-> 0, r |-> 0]

\* `${kind}_${currentTime}_${Math.random()}`
MakeId(kind, currentTime, r) == [k |-> kind, t |-> currentTime, r |-> r]

createMob(type, currentTime, r) ==
    LET mobDef == MOB_DEFINITIONS(type)
        pos == gridToWorld(spawnPoint[1], spawnPoint[2])
    IN [id |-> MakeId("mob", currentTime, r), x |-> pos[1], y |-> pos[2],
        hp |-> mobDef.hp, maxHp |-> mobDef.hp, speed |-> mobDef.speed,
        armor |-> mobDef.armor, bounty |-> mobDef.bounty, type |-> mobDef.type,
        slowUntil |-> Undef, slowMultiplier |-> Undef,
        prog |-> 0, isDead |-> FALSE, reachedEnd |-> FALSE]

createProjectile(tower, target, currentTime, r) ==
    [id |-> MakeId("projectile", currentTime, r),
     x |-> tower.tile[1] * PosScale, y |-> tower.tile[2] * PosScale,
     targetId |-> target.id,
     speed |-> IF Truthy(tower.projectileSpeed) THEN tower.projectileSpeed ELSE 5,
     damage |-> tower.damage, splashRadius |-> tower.splashRadius,
     towerId |-> tower.id, createdAt |-> currentTime]

createTower(towerDef, pos, currentTime, r) ==
    [id |-> MakeId("tower", currentTime, r), tile |-> pos,
     range |-> towerDef.range, rate |-> towerDef.rate, damage |-> towerDef.damage,
     projectileSpeed |-> towerDef.projectileSpeed, lastFiredAt |-> 0,
     kind |-> towerDef.type, tier |-> 1, cost |-> towerDef.baseCost, targetId |-> NoId,
     splashRadius |-> towerDef.splashRadius, slowDuration |-> towerDef.slowDuration,
     slowAmount |-> towerDef.slowAmount]

\* one wave of createInitialGame: the progress fields (the entries stay in
\* WAVE_DEFINITIONS, which the engine only reads)
initialWave(def) ==
    [id |-> def.id, isActive |-> FALSE, isComplete |-> FALSE, startTime |-> Undef,
     nextSpawnTime |-> Undef, currentEntryIndex |-> 0, currentSpawnCount |-> 0,
     bonusGiven |-> FALSE]

\* the absent (undefined) hoveredTile and buildMode of a Game; an absent
\* selectedTower is NoId
NoTile == <<>>
NoType == "undefined"

\* the optional UI fields selectedTower, hoveredTile and buildMode are absent
createInitialGame ==
    [time |-> 0, state |-> "menu", speed |-> 5,
     mobs |-> <<>>, towers |-> <<>>, projectiles |-> <<>>,
     waves |-> [i \in 1..Len(WAVE_DEFINITIONS) |-> initialWave(WAVE_DEFINITIONS[i])],
     currentWave |-> 0, totalWaves |-> Len(WAVE_DEFINITIONS),
     money |-> 200, lives |-> 100, score |-> 0, tickCount |-> 0,
     selectedTower |-> NoId, hoveredTile |-> NoTile, buildMode |-> NoType]

----------------------------------------------------------------------------
(* engine/sim.ts: the phases of one tick *)

\* Seeded fault for C12: updateWaves, but leaving an entry skips the next one
updateWavesSkipping(g, r) ==
    IF g.currentWave >= g.totalWaves THEN g
    ELSE
      LET w0 == g.waves[g.currentWave + 1]
          w1 == IF ~w0.isActive
                THEN [w0 EXCEPT !.isActive = TRUE, !.startTime = g.time,
                                !.nextSpawnTime = g.time, !.currentEntryIndex = 0,
                                !.currentSpawnCount = 0]
                ELSE w0
          entries == WAVE_DEFINITIONS[g.currentWave + 1].entries
          hasEntry == w1.currentEntryIndex < Len(entries)
          entry == entries[w1.currentEntryIndex + 1]
      IN IF w0.isComplete THEN g
         ELSE IF hasEntry /\ g.time >= entry.delay
                 /\ Truthy(w1.nextSpawnTime) /\ g.time >= w1.nextSpawnTime
         THEN IF w1.currentSpawnCount < entry.count
              THEN [g EXCEPT
                      !.mobs = Append(g.mobs, createMob(entry.kind, g.time, r)),
                      !.waves[g.currentWave + 1] =
                          [w1 EXCEPT !.currentSpawnCount = w1.currentSpawnCount + 1,
                                     !.nextSpawnTime = g.time + entry.spacing]]
              ELSE LET done == w1.currentEntryIndex + 2 >= Len(entries)
                   IN [g EXCEPT
                         !.waves[g.currentWave + 1] =
                             [w1 EXCEPT !.currentEntryIndex = w1.currentEntryIndex + 2,
                                        !.currentSpawnCount = 0,
                                        !.isComplete = done],
                         !.money = IF done THEN g.money + 50 + w1.id * 10 ELSE g.money]
         ELSE [g EXCEPT !.waves[g.currentWave + 1] = w1]

\* Seeded fault for C13: updateWaves, but the next spawn is due at once
updateWavesUnspaced(g, r) ==
    IF g.currentWave >= g.totalWaves THEN g
    ELSE
      LET w0 == g.waves[g.currentWave + 1]
          w1 == IF ~w0.isActive
                THEN [w0 EXCEPT !.isActive = TRUE, !.startTime = g.time,
                                !.nextSpawnTime = g.time, !.currentEntryIndex = 0,
                                !.currentSpawnCount = 0]
                ELSE w0
          entries == WAVE_DEFINITIONS[g.currentWave + 1].entries
          hasEntry == w1.currentEntryIndex < Len(entries)
          entry == entries[w1.currentEntryIndex + 1]
      IN IF w0.isComplete THEN g
         ELSE IF hasEntry /\ g.time >= entry.delay
                 /\ Truthy(w1.nextSpawnTime) /\ g.time >= w1.nextSpawnTime
         THEN IF w1.currentSpawnCount < entry.count
              THEN [g EXCEPT
                      !.mobs = Append(g.mobs, createMob(entry.kind, g.time, r)),
                      !.waves[g.currentWave + 1] =
                          [w1 EXCEPT !.currentSpawnCount = w1.currentSpawnCount + 1,
                                     !.nextSpawnTime = g.time]]
              ELSE LET done == w1.currentEntryIndex + 1 >= Len(entries)
                   IN [g EXCEPT
                         !.waves[g.currentWave + 1] =
                             [w1 EXCEPT !.currentEntryIndex = w1.currentEntryIndex + 1,
                                        !.currentSpawnCount = 0,
                                        !.isComplete = done],
                         !.money = IF done THEN g.money + 50 + w1.id * 10 ELSE g.money]
         ELSE [g EXCEPT !.waves[g.currentWave + 1] = w1]

updateWaves(g, r) ==
    IF g.currentWave >= g.totalWaves THEN g
    ELSE
      LET w0 == g.waves[g.currentWave + 1]
          w1 == IF ~w0.isActive
                THEN [w0 EXCEPT !.isActive = TRUE, !.startTime = g.time,
                                !.nextSpawnTime = g.time, !.currentEntryIndex = 0,
                                !.currentSpawnCount = 0]
                ELSE w0
          entries == WAVE_DEFINITIONS[g.currentWave + 1].entries
          hasEntry == w1.currentEntryIndex < Len(entries)
          entry == entries[w1.currentEntryIndex + 1]
      IN IF w0.isComplete THEN g
         ELSE IF hasEntry /\ g.time >= entry.delay
                 /\ Truthy(w1.nextSpawnTime) /\ g.time >= w1.nextSpawnTime
         THEN IF w1.currentSpawnCount < entry.count
              THEN [g EXCEPT
                      !.mobs = Append(g.mobs, createMob(entry.kind, g.time, r)),
                      !.waves[g.currentWave + 1] =
                          [w1 EXCEPT !.currentSpawnCount = w1.currentSpawnCount + 1,
                                     !.nextSpawnTime = g.time + entry.spacing]]
              ELSE LET done == w1.currentEntryIndex + 1 >= Len(entries)
                   IN [g EXCEPT
                         !.waves[g.currentWave + 1] =
                             [w1 EXCEPT !.currentEntryIndex = w1.currentEntryIndex + 1,
                                        !.currentSpawnCount = 0,
                                        !.isComplete = done],
                         !.money = IF done THEN g.money + 50 + w1.id * 10 ELSE g.money]
         ELSE [g EXCEPT !.waves[g.currentWave + 1] = w1]

\* one mob of updateMobs; prog is pathProgress * (path.length - 1) in position units
moveMob(mob0, currentTime, dt) ==
    IF mob0.isDead \/ mob0.reachedEnd THEN mob0
    ELSE
      LET mob == cleanupExpiredEffects(mob0, currentTime)
          currentSpeed == updateMobSpeed(mob, currentTime)
          pathIndex == mob.prog \div PosScale
          nextPathIndex == Min(pathIndex + 1, PathLen - 1)
          moveDistance == (currentSpeed * dt) \div 10
          \* adjacent waypoints are one tile apart; 0 at the last waypoint
          pathSegmentLength == (nextPathIndex - pathIndex) * PosScale
          progressInSegment == mob.prog - pathIndex * PosScale
          newProgressInSegment == progressInSegment + moveDistance
          newPathIndex == Min(nextPathIndex + 1, PathLen - 1)
      IN IF PathLen > 1 /\ pathSegmentLength > 0
         THEN IF newProgressInSegment >= PosScale
              THEN IF newPathIndex >= PathLen - 1
                   THEN [mob EXCEPT !.prog = newPathIndex * PosScale,
                                    !.reachedEnd = TRUE,
                                    !.x = basePosition[1] * PosScale,
                                    !.y = basePosition[2] * PosScale]
                   ELSE [mob EXCEPT !.prog = newPathIndex * PosScale,
                                    !.x = gridToWorld(PathAt(newPathIndex)[1], pathY)[1],
                                    !.y = gridToWorld(PathAt(newPathIndex)[1], pathY)[2]]
              ELSE [mob EXCEPT
                      !.x = PathAt(pathIndex)[1] * PosScale
                            + (PathAt(nextPathIndex)[1] - PathAt(pathIndex)[1]) * newProgressInSegment
                            + PosScale \div 2,
                      !.y = pathY * PosScale + PosScale \div 2,
                      !.prog = pathIndex * PosScale + newProgressInSegment]
         ELSE mob

updateMobs(g, dt) ==
    [g EXCEPT !.mobs = [i \in 1..Len(g.mobs) |-> moveMob(g.mobs[i], g.time, dt)]]

\* Seeded fault for C25: the loop body, but firing does not stamp lastFiredAt
towerStepUnstamped(g, i, rnd) ==
    LET tower == g.towers[i]
        towerDef == TOWER_DEFINITIONS(tower.kind)
        t == findTarget(tower, g.mobs, towerDef.targetingStrategy)
        \* timeSinceLastFire >= 1 / rate
        canFire == (g.time - tower.lastFiredAt) * tower.rate >= 10 * TimeScale
    IN IF t # 0 /\ canFire
       THEN [g EXCEPT
               !.projectiles = Append(g.projectiles,
                                      createProjectile(tower, g.mobs[t], g.time, rnd[i])),
               !.towers[i] = [tower EXCEPT !.targetId = g.mobs[t].id]]
       ELSE g

\* the body of the loop of updateTowers for tower i; rnd[i] is the
\* Math.random() of tower i's projectile
towerStep(g, i, rnd) ==
    LET tower == g.towers[i]
        towerDef == TOWER_DEFINITIONS(tower.kind)
        t == findTarget(tower, g.mobs, towerDef.targetingStrategy)
        \* timeSinceLastFire >= 1 / rate
        canFire == (g.time - tower.lastFiredAt) * tower.rate >= 10 * TimeScale
    IN IF t # 0 /\ canFire
       THEN [g EXCEPT
               !.projectiles = Append(g.projectiles,
                                      createProjectile(tower, g.mobs[t], g.time, rnd[i])),
               !.towers[i] = [tower EXCEPT !.lastFiredAt = g.time,
                                           !.targetId = g.mobs[t].id]]
       ELSE g

\* towers i..n of updateTowers
RECURSIVE towersFrom(_, _, _)
towersFrom(g, i, rnd) ==
    IF i > Len(g.towers) THEN g
    ELSE towersFrom(towerStep(g, i, rnd), i + 1, rnd)

updateTowers(g, rnd) == towersFrom(g, 1, rnd)

\* the AoE loop of applyProjectileHit over the splash set, in list order;
\* mobs0 is the mob list the splash set was computed on
RECURSIVE splashFrom(_, _, _, _)
splashFrom(g, projectile, mobs0, k) ==
    IF k > Len(mobs0) THEN g
    ELSE IF k \in getMobsInSplashRadius(projectile.x, projectile.y,
                                        projectile.splashRadius, mobs0)
    THEN LET mobIndex == FindIndexById(g.mobs, mobs0[k].id)
             damaged == applyDamage(mobs0[k],
                                    splashDamage(projectile.x, projectile.y,
                                                 projectile.splashRadius,
                                                 projectile.damage, mobs0[k]))
         IN IF mobIndex > 0
            THEN splashFrom([g EXCEPT !.mobs[mobIndex] = damaged,
                                      !.money = IF damaged.isDead
                                                THEN g.money + mobs0[k].bounty
                                                ELSE g.money],
                            projectile, mobs0, k + 1)
            ELSE splashFrom(g, projectile, mobs0, k + 1)
    ELSE splashFrom(g, projectile, mobs0, k + 1)

\* Seeded fault for C24: applyProjectileHit, but a single-target hit pays the
\* bounty whether or not it kills
applyProjectileHitPaying(g, projectile, target, tower) ==
    IF Truthy(projectile.splashRadius)
    THEN splashFrom(g, projectile, g.mobs, 1)
    ELSE
      LET effectiveDamage == getEffectiveDamage(projectile.damage, target.armor)
          mobIndex == FindIndexById(g.mobs, target.id)
          damaged == applyDamage(target, effectiveDamage)
          slowed == IF tower.kind = "frost" /\ Truthy(tower.slowDuration)
                       /\ Truthy(tower.slowAmount)
                    THEN applySlow(damaged, tower.slowDuration, tower.slowAmount, g.time)
                    ELSE damaged
      IN IF mobIndex > 0
         THEN [g EXCEPT !.mobs[mobIndex] = slowed,
                        !.money = g.money + target.bounty]
         ELSE g

applyProjectileHit(g, projectile, target, tower) ==
    IF Truthy(projectile.splashRadius)
    THEN splashFrom(g, projectile, g.mobs, 1)
    ELSE
      LET effectiveDamage == getEffectiveDamage(projectile.damage, target.armor)
          mobIndex == FindIndexById(g.mobs, target.id)
          damaged == applyDamage(target, effectiveDamage)
          slowed == IF tower.kind = "frost" /\ Truthy(tower.slowDuration)
                       /\ Truthy(tower.slowAmount)
                    THEN applySlow(damaged, tower.slowDuration, tower.slowAmount, g.time)
                    ELSE damaged
      IN IF mobIndex > 0
         THEN [g EXCEPT !.mobs[mobIndex] = slowed,
                        !.money = IF slowed.isDead THEN g.money + target.bounty
                                  ELSE g.money]
         ELSE g

\* Seeded fault for C23: the loop body, but only a missing target prunes the
\* projectile: a dead target is still flown at and hit
projectileStepOnDead(g, i, dt) ==
      LET projectile == g.projectiles[i]
          ti == FindIndexById(g.mobs, projectile.targetId)
          target == g.mobs[ti]
          dx == target.x - projectile.x
          dy == target.y - projectile.y
          d2 == dx * dx + dy * dy
          distance == Sqrt(d2)
          wi == FindIndexById(g.towers, projectile.towerId)
          moveDistance == projectile.speed * dt * (PosScale \div TimeScale)
      IN IF ti = 0
         THEN [g EXCEPT !.projectiles = RemoveAt(g.projectiles, i)]
         ELSE IF d2 <= (PosScale * PosScale) \div 100
         THEN LET hit == IF wi > 0
                         THEN applyProjectileHit(g, projectile, target, g.towers[wi])
                         ELSE g
              IN [hit EXCEPT !.projectiles = RemoveAt(hit.projectiles, i)]
         ELSE [g EXCEPT !.projectiles[i] =
                  [projectile EXCEPT
                     !.x = projectile.x + RoundDiv(dx * moveDistance, distance),
                     !.y = projectile.y + RoundDiv(dy * moveDistance, distance)]]

\* the body of the loop of updateProjectiles for projectile i
projectileStep(g, i, dt) ==
      LET projectile == g.projectiles[i]
          ti == FindIndexById(g.mobs, projectile.targetId)
          target == g.mobs[ti]
          dx == target.x - projectile.x
          dy == target.y - projectile.y
          d2 == dx * dx + dy * dy
          distance == Sqrt(d2)
          wi == FindIndexById(g.towers, projectile.towerId)
          moveDistance == projectile.speed * dt * (PosScale \div TimeScale)
      IN IF ti = 0 \/ target.isDead
         THEN [g EXCEPT !.projectiles = RemoveAt(g.projectiles, i)]
         ELSE IF d2 <= (PosScale * PosScale) \div 100
         THEN LET hit == IF wi > 0
                         THEN applyProjectileHit(g, projectile, target, g.towers[wi])
                         ELSE g
              IN [hit EXCEPT !.projectiles = RemoveAt(hit.projectiles, i)]
         ELSE [g EXCEPT !.projectiles[i] =
                  [projectile EXCEPT
                     !.x = projectile.x + RoundDiv(dx * moveDistance, distance),
                     !.y = projectile.y + RoundDiv(dy * moveDistance, distance)]]

\* projectiles i, i-1, .. 1 of updateProjectiles
RECURSIVE projectilesFrom(_, _, _)
projectilesFrom(g, i, dt) ==
    IF i < 1 THEN g
    ELSE projectilesFrom(projectileStep(g, i, dt), i - 1, dt)

updateProjectiles(g, dt) == projectilesFrom(g, Len(g.projectiles), dt)

\* the game as the loop of updateProjectiles has it when it comes to
\* projectile `last`, having started at projectile i
RECURSIVE projectilesDownTo(_, _, _, _)
projectilesDownTo(g, i, last, dt) ==
    IF i <= last THEN g
    ELSE projectilesDownTo(projectileStep(g, i, dt), i - 1, last, dt)

NotDead(mob) == ~mob.isDead
NotReachedEnd(mob) == ~mob.reachedEnd

\* Seeded fault for C26: cleanupEntities, but a projectile of exactly
\* maxProjectileAge is kept
cleanupEntitiesAtLimit(g) ==
    LET Young(projectile) == g.time - projectile.createdAt <= 5 * TimeScale
    IN [g EXCEPT !.mobs = SelectSeq(g.mobs, NotDead),
                 !.projectiles = SelectSeq(g.projectiles, Young)]

\* Seeded fault for C39: cleanupEntities, but the dead mobs stay in the list
cleanupEntitiesKeepingMobs(g) ==
    LET Young(projectile) == g.time - projectile.createdAt < 5 * TimeScale
    IN [g EXCEPT !.projectiles = SelectSeq(g.projectiles, Young)]

\* maxProjectileAge is 5 seconds
cleanupEntities(g) ==
    LET Young(projectile) == g.time - projectile.createdAt < 5 * TimeScale
    IN [g EXCEPT !.mobs = SelectSeq(g.mobs, NotDead),
                 !.projectiles = SelectSeq(g.projectiles, Young)]

\* Seeded fault for C15: checkGameState, but the clear bonus does not wait for
\* the mobs to be gone
checkGameStateEarlyBonus(g) ==
    LET mobsReachedEnd == SelectSeq(g.mobs, LAMBDA mob : mob.reachedEnd)
        lives == g.lives - Len(mobsReachedEnd)
        mobs == SelectSeq(g.mobs, NotReachedEnd)
        state1 == IF lives <= 0 THEN "gameOver" ELSE g.state
        hasWave == g.currentWave < Len(g.waves)
        currentWave == g.waves[g.currentWave + 1]
        bonus == hasWave /\ currentWave.isComplete
                 /\ g.projectiles = <<>> /\ ~currentWave.bonusGiven
        win == g.currentWave >= g.totalWaves /\ mobs = <<>> /\ g.projectiles = <<>>
    IN [g EXCEPT
          !.lives = lives,
          !.mobs = mobs,
          !.money = IF bonus THEN g.money + 25 + currentWave.id * 5 ELSE g.money,
          !.waves = IF bonus
                    THEN [g.waves EXCEPT ![g.currentWave + 1].bonusGiven = TRUE]
                    ELSE g.waves,
          !.state = IF win THEN "victory" ELSE state1]

\* Seeded fault for C9: checkGameState, but victory looks at the wave index only
checkGameStateWaveOnly(g) ==
    LET lives == g.lives - Len(SelectSeq(g.mobs, LAMBDA mob : mob.reachedEnd))
    IN [g EXCEPT !.lives = lives,
                 !.mobs = SelectSeq(g.mobs, NotReachedEnd),
                 !.state = IF g.currentWave >= g.totalWaves THEN "victory"
                           ELSE IF lives <= 0 THEN "gameOver" ELSE g.state]

checkGameState(g) ==
    LET mobsReachedEnd == SelectSeq(g.mobs, LAMBDA mob : mob.reachedEnd)
        lives == g.lives - Len(mobsReachedEnd)
        mobs == SelectSeq(g.mobs, NotReachedEnd)
        state1 == IF lives <= 0 THEN "gameOver" ELSE g.state
        hasWave == g.currentWave < Len(g.waves)
        currentWave == g.waves[g.currentWave + 1]
        bonus == hasWave /\ currentWave.isComplete /\ mobs = <<>>
                 /\ g.projectiles = <<>> /\ ~currentWave.bonusGiven
        win == g.currentWave >= g.totalWaves /\ mobs = <<>> /\ g.projectiles = <<>>
    IN [g EXCEPT
          !.lives = lives,
          !.mobs = mobs,
          !.money = IF bonus THEN g.money + 25 + currentWave.id * 5 ELSE g.money,
          !.waves = IF bonus
                    THEN [g.waves EXCEPT ![g.currentWave + 1].bonusGiven = TRUE]
                    ELSE g.waves,
          !.state = IF win THEN "victory" ELSE state1]

\* the snapshot as it is just before cleanupEntities
preCleanup(g, dt, rnd) ==
    LET ticked == [g EXCEPT !.time = g.time + dt, !.tickCount = g.tickCount + 1]
    IN updateProjectiles(updateTowers(updateMobs(updateWaves(ticked, rnd[0]), dt), rnd), dt)

\* Seeded fault for C3: advanceTick, but the tick is not counted
advanceTickUncounted(g, dt, rnd) ==
    [checkGameState(cleanupEntities(preCleanup(g, dt, rnd))) EXCEPT !.tickCount = g.tickCount]

\* Seeded fault for C19: advanceTick, but the simulation waits while a tile is hovered
advanceTickHovering(g, dt, rnd) ==
    IF g.hoveredTile = NoTile THEN checkGameState(cleanupEntities(preCleanup(g, dt, rnd)))
    ELSE g

\* the snapshot as updateMobs returns it, before updateTowers
beforeTowers(g, dt, r) ==
    updateMobs(updateWaves([g EXCEPT !.time = g.time + dt,
                                     !.tickCount = g.tickCount + 1], r), dt)

\* the snapshot as updateTowers returns it, before updateProjectiles
beforeProjectiles(g, dt, rnd) ==
    updateTowers(updateMobs(updateWaves([g EXCEPT !.time = g.time + dt,
                                                  !.tickCount = g.tickCount + 1],
                                        rnd[0]), dt), rnd)

\* Seeded fault for C27: advanceTick, but the game state is evaluated before
\* the cleanup
advanceTickJudgingFirst(g, dt, rnd) == cleanupEntities(checkGameState(preCleanup(g, dt, rnd)))

\* rnd[0] is the Math.random() of the spawned mob, rnd[i] that of tower i's projectile
advanceTick(g, dt, rnd) == checkGameState(cleanupEntities(preCleanup(g, dt, rnd)))

\* The argument object after advanceTick(g, dt) has returned.  Every phase
\* works on a shallow copy { ...game }: the numbers and the state string are
\* copied, the mobs, towers, projectiles and waves arrays are shared with the
\* argument until cleanupEntities replaces mobs and projectiles by filtered
\* copies, and the wave objects are shared throughout.
inputAfterOf(g, pre) ==
    [g EXCEPT !.mobs = pre.mobs, !.towers = pre.towers,
              !.projectiles = pre.projectiles,
              !.waves = checkGameState(cleanupEntities(pre)).waves]

\* The object a first call advanceTick(g, dt) returned, read after a second
\* call advanceTick(g, dt) has returned `second`: its towers and waves are the
\* arrays and objects of g, which both calls share, and its mobs are objects
\* that the second call's updateMobs has moved in place.
firstAfterSecond(first, second, dt) ==
    [first EXCEPT !.towers = second.towers,
                  !.waves = second.waves,
                  !.mobs = [i \in 1..Len(first.mobs) |->
                               moveMob(first.mobs[i], first.time, dt)]]

----------------------------------------------------------------------------
(* engine/sim.ts: commands *)

\* Seeded fault for C14: startNextWave, but the wave it stamps starts over
startNextWaveAgain(g) ==
    IF g.currentWave < g.totalWaves
    THEN [g EXCEPT !.currentWave = g.currentWave + 1,
                   !.state = "playing",
                   !.waves[g.currentWave + 1] =
                       [g.waves[g.currentWave + 1] EXCEPT
                          !.isActive = TRUE, !.isComplete = FALSE, !.startTime = g.time,
                          !.nextSpawnTime = g.time]]
    ELSE g

\* Seeded fault for C35: startNextWave, but the wave number is raised past
\* totalWaves too (there is no wave object to stamp then)
startNextWaveUncapped(g) ==
    IF g.currentWave < g.totalWaves
    THEN [g EXCEPT !.currentWave = g.currentWave + 1,
                   !.state = "playing",
                   !.waves[g.currentWave + 1] =
                       [g.waves[g.currentWave + 1] EXCEPT
                          !.isActive = TRUE, !.startTime = g.time,
                          !.nextSpawnTime = g.time]]
    ELSE [g EXCEPT !.currentWave = g.currentWave + 1, !.state = "playing"]

startNextWave(g) ==
    IF g.currentWave < g.totalWaves
    THEN [g EXCEPT !.currentWave = g.currentWave + 1,
                   !.state = "playing",
                   !.waves[g.currentWave + 1] =
                       [g.waves[g.currentWave + 1] EXCEPT
                          !.isActive = TRUE, !.startTime = g.time,
                          !.nextSpawnTime = g.time]]
    ELSE g

togglePause(g) ==
    IF g.state = "playing" THEN [g EXCEPT !.state = "paused"]
    ELSE IF g.state = "paused" THEN [g EXCEPT !.state = "playing"]
    ELSE g

setGameSpeed(g, speed) == [g EXCEPT !.speed = speed]

\* Names every JavaScript object inherits from Object.prototype:
\* TOWER_DEFINITIONS is an object literal, so TOWER_DEFINITIONS[name] is a
\* truthy value without baseCost and baseStats for each of them.
ObjectPrototypeKeys == {"constructor"}

\* Seeded fault for C1: placeTower, but the tower is free of charge
placeTowerUnpaid(g, pos, towerType, r) ==
    IF towerType \in TOWER_TYPES /\ isBuildable(pos)
       /\ g.money >= TOWER_DEFINITIONS(towerType).baseCost
       /\ \A i \in 1..Len(g.towers) : g.towers[i].tile # pos
    THEN [game |-> [g EXCEPT !.towers = Append(g.towers,
                                               createTower(TOWER_DEFINITIONS(towerType),
                                                           pos, g.time, r))],
          raised |-> FALSE]
    ELSE [game |-> g, raised |-> FALSE]

\* Seeded fault for C16: placeTower, but an occupied tile is not refused
placeTowerStacking(g, pos, towerType, r) ==
    IF towerType \in TOWER_TYPES
    THEN LET towerDef == TOWER_DEFINITIONS(towerType)
         IN IF g.money < towerDef.baseCost THEN [game |-> g, raised |-> FALSE]
            ELSE IF ~isBuildable(pos) THEN [game |-> g, raised |-> FALSE]
            ELSE [game |-> [g EXCEPT
                              !.towers = Append(g.towers,
                                                createTower(towerDef, pos, g.time, r)),
                              !.money = g.money - towerDef.baseCost],
                  raised |-> FALSE]
    ELSE IF towerType \in ObjectPrototypeKeys
    THEN IF ~isBuildable(pos) THEN [game |-> g, raised |-> FALSE]
         ELSE [game |-> g, raised |-> TRUE]
    ELSE [game |-> g, raised |-> FALSE]

\* Seeded fault for C34: placeTower, but the money is not compared with the cost
placeTowerOnCredit(g, pos, towerType, r) ==
    IF towerType \in TOWER_TYPES /\ isBuildable(pos)
       /\ \A i \in 1..Len(g.towers) : g.towers[i].tile # pos
    THEN [game |-> [g EXCEPT !.towers = Append(g.towers,
                                               createTower(TOWER_DEFINITIONS(towerType),
                                                           pos, g.time, r)),
                             !.money = g.money - TOWER_DEFINITIONS(towerType).baseCost],
          raised |-> FALSE]
    ELSE [game |-> g, raised |-> FALSE]

\* the returned game, and whether the call threw instead of returning
placeTower(g, pos, towerType, r) ==
    IF towerType \in TOWER_TYPES
    THEN LET towerDef == TOWER_DEFINITIONS(towerType)
         IN IF g.money < towerDef.baseCost THEN [game |-> g, raised |-> FALSE]
            ELSE IF ~isBuildable(pos) THEN [game |-> g, raised |-> FALSE]
            ELSE IF \E i \in 1..Len(g.towers) : g.towers[i].tile = pos
            THEN [game |-> g, raised |-> FALSE]
            ELSE [game |-> [g EXCEPT
                              !.towers = Append(g.towers,
                                                createTower(towerDef, pos, g.time, r)),
                              !.money = g.money - towerDef.baseCost],
                  raised |-> FALSE]
    ELSE IF towerType \in ObjectPrototypeKeys
    \* towerDef is truthy and money < undefined is false: the checks go on,
    \* and towerDef.baseStats.range throws a TypeError
    THEN IF ~isBuildable(pos) THEN [game |-> g, raised |-> FALSE]
         ELSE IF \E i \in 1..Len(g.towers) : g.towers[i].tile = pos
         THEN [game |-> g, raised |-> FALSE]
         ELSE [game |-> g, raised |-> TRUE]
    ELSE [game |-> g, raised |-> FALSE]

\* The argument object after placeTower(g, pos, towerType) has returned:
\* newGame = { ...game } shares the towers array, and newGame.towers.push
\* appends to it; money is a number of the copy.
placeTowerInputAfter(g, pos, towerType, r) ==
    [g EXCEPT !.towers = placeTower(g, pos, towerType, r).game.towers]

----------------------------------------------------------------------------
(* state/store.ts *)

startGame(g) == [g EXCEPT !.state = "playing"]

\* Seeded fault for C20: restartGame, but the new game takes over the wave
\* objects of the game it replaces
restartGameKeepingWaves(g) == [createInitialGame EXCEPT !.waves = g.waves]

\* set({ game: createInitialGame(), ... }): the game g of the store is dropped
restartGame(g) == createInitialGame

enterBuildMode(g, towerType) == [g EXCEPT !.buildMode = towerType]

exitBuildMode(g) == [g EXCEPT !.buildMode = NoType]

selectTower(g, towerId) == [g EXCEPT !.selectedTower = towerId]

deselectTower(g) == [g EXCEPT !.selectedTower = NoId]

setHoveredTile(g, pos) == [g EXCEPT !.hoveredTile = pos]

----------------------------------------------------------------------------
(* The state machine: the store's game, driven by the engine's commands *)

\* the tile beside the base, for the UI commands
UITileSet == {<<MapWidth - 1, pathY - 1>>}

UITypeSet == {"arrow"}

\* tiles the player clicks: the two buildable tiles beside the base, a path
\* tile, and a position off the map
PlaceSet == {<<MapWidth - 1, pathY - 1>>, <<MapWidth - 1, pathY + 1>>,
             <<0, pathY>>, <<-1, -1>>}

\* tower type names handed to placeTower
TypeSet == {"arrow", "frost", "laser"} \cup ObjectPrototypeKeys

SpeedSet == {20}

\* The draws of Math.random() for the ids made in one advanceTick of the run.
\* Mobs are spawned at pairwise different times and projectile ids are never
\* read, so these draws cannot influence a run; the run fixes them, and
\* replayEqual compares it with every draw of Rand.
TickDraws(n) == [0..n -> {0}]

\* the last command: its name and arguments, the lifecycle state it was given
\* (from), whether it threw, for a tick the number of mobs that reached the
\* base in it, whether the Game object it was given reads after the call as it
\* read before (intact), and for a tick the money updateWaves added (reward)
\* and the money checkGameState added (bonus); for a call of findTarget its
\* strategy and the index of the mob it returned (target, 0 for null); for a
\* projectile hit the index of the mob hit, the projectile's damage and the
\* mob's health before the hit (hp); for a restart the number of waves that
\* were complete in the game it replaced (completed); for a tick the number of
\* projectiles it was given whose target was no longer in the mob list
\* (orphans), whether a splash and a single-target hit changed the same
\* mob in it (both), the number of projectiles its cleanup dropped for
\* their age while their target was alive in the mob list (aged), and the
\* bounties of the mobs its projectiles killed (killed); for a call of the
\* store's update the ticks it made (ticks) and how many of them were given a
\* game that was not 'playing' (late); for a call of applySlow its duration
\* and amount; for a call of findPath its start (pos), its end (to) and the
\* path it returned
NoOp == [name |-> "init", dt |-> 0, pos |-> <<0, 0>>, type |-> "", from |-> "menu",
         raised |-> FALSE, reached |-> 0, intact |-> TRUE, reward |-> 0, bonus |-> 0,
         strategy |-> "", target |-> 0, index |-> 0, damage |-> 0, hp |-> 0,
         completed |-> 0, orphans |-> 0, both |-> FALSE, aged |-> 0, killed |-> 0,
         ticks |-> 0, late |-> 0, duration |-> 0, amount |-> 0, to |-> <<0, 0>>,
         path |-> <<>>]

Did(name) == [NoOp EXCEPT !.name = name, !.from = game.state]

\* the store's fields beside game (lastFrameTime is written and never read)
initialStore == [isRunning |-> FALSE, accumulator |-> 0]

Init ==
    /\ game = createInitialGame
    /\ op = NoOp
    /\ replayEqual = TRUE
    /\ spawnLog = [i \in 1..Len(WAVE_DEFINITIONS) |-> <<>>]
    /\ store = initialStore

\* the number of mobs whose reachedEnd flag updateMobs sets in advanceTick(g, dt)
\* the mobs of one updateMobs call that arrive at the base in it
reachedBetween(before, after) ==
    Cardinality({i \in 1..Len(after) : after[i].reachedEnd /\ ~before[i].reachedEnd})

reachedEndOf(spawned, dt) == reachedBetween(spawned.mobs, updateMobs(spawned, dt).mobs)

ReachedEndIn(g, dt) ==
    reachedEndOf(updateWaves([g EXCEPT !.time = g.time + dt,
                                       !.tickCount = g.tickCount + 1], 0), dt)

\* the money updateWaves adds in advanceTick(g, dt): newGame.money += waveReward
rewardIn(g, dt, r) ==
    LET ticked == [g EXCEPT !.time = g.time + dt, !.tickCount = g.tickCount + 1]
    IN updateWaves(ticked, r).money - g.money

\* the money checkGameState adds in advanceTick(g, dt): newGame.money += waveBonus
\* cleaned is the game as cleanupEntities returned it
bonusOf(cleaned) == checkGameState(cleaned).money - cleaned.money

\* The mobs updateWaves pushes in advanceTick(g, dt), as entries of the spawn
\* history: the wave (index into game.waves + 1) and the wave entry
\* (currentEntryIndex) being spawned, the kind of the mob, and the time.
\* after is the game as updateWaves returned it
spawnedBetween(g, after) ==
    [k \in 1..(Len(after.mobs) - Len(g.mobs)) |->
        [wave |-> after.currentWave + 1,
         entry |-> after.waves[after.currentWave + 1].currentEntryIndex,
         kind |-> after.mobs[Len(g.mobs) + k].type,
         time |-> after.time]]

spawnedIn(g, dt, r) ==
    spawnedBetween(g, updateWaves([g EXCEPT !.time = g.time + dt,
                                            !.tickCount = g.tickCount + 1], r))

\* the spawn history after advanceTick(g, dt): for each wave, its spawns in order
logWith(log, new) ==
    [i \in DOMAIN log |-> log[i] \o SelectSeq(new, LAMBDA s : s.wave = i)]

logAfter(log, g, dt, r) == logWith(log, spawnedIn(g, dt, r))

\* the projectiles of g whose target newGame.mobs.find(...) will not find
orphansOf(g) ==
    Cardinality({i \in 1..Len(g.projectiles) :
                    FindIndexById(g.mobs, g.projectiles[i].targetId) = 0})

\* the bounties of mobs 1..k that are alive in before and dead in after
RECURSIVE bountySum(_, _, _)
bountySum(before, after, k) ==
    IF k = 0 THEN 0
    ELSE (IF ~before[k].isDead /\ after[k].isDead THEN before[k].bounty ELSE 0)
         + bountySum(before, after, k - 1)

\* the bounties of the mobs that died while the projectiles flew
killsOf(fired, flown) == bountySum(fired.mobs, flown.mobs, Len(fired.mobs))

\* the projectiles of g that are maxProjectileAge old or older although their
\* target is in g.mobs and not dead
agedOf(g) ==
    Cardinality({i \in 1..Len(g.projectiles) :
                    /\ g.time - g.projectiles[i].createdAt >= 5 * TimeScale
                    /\ FindIndexById(g.mobs, g.projectiles[i].targetId) > 0
                    /\ ~g.mobs[FindIndexById(g.mobs, g.projectiles[i].targetId)].isDead})

\* accumulator units per millisecond
MsScale == 6

\* the store's TICK_DURATION = 1000 / 60, in accumulator units
TICK_DURATION == (1000 * MsScale) \div 60

\* the same number as advanceTick reads it: a dt in seconds
TickDt == (1000 * TimeScale) \div 60

\* the while loop of update.  run carries newGame and remainingTime, and as
\* history the ticks made, the ticks made on a game that was not 'playing',
\* and the spawn history
RECURSIVE updateLoop(_)
updateLoop(run) ==
    IF run.remainingTime >= TICK_DURATION
    THEN updateLoop([game |-> advanceTick(run.game, TickDt,
                                          [i \in 0..Len(run.game.towers) |-> 0]),
                     remainingTime |-> run.remainingTime - TICK_DURATION,
                     ticks |-> run.ticks + 1,
                     late |-> run.late + (IF run.game.state = "playing" THEN 0 ELSE 1),
                     log |-> logAfter(run.log, run.game, TickDt, 0)])
    ELSE run

\* update(deltaTime) of the store s holding game g: the game and accumulator
\* it sets (none on the early return)
update(s, g, deltaTime, log) ==
    IF ~s.isRunning \/ g.state # "playing"
    THEN [game |-> g, remainingTime |-> s.accumulator, ticks |-> 0, late |-> 0,
          log |-> log]
    ELSE updateLoop([game |-> g, remainingTime |-> s.accumulator + deltaTime,
                     ticks |-> 0, late |-> 0, log |-> log])

\* advanceTick(game, dt) with dt drawn from D
sameAfterReplay(first, second, dt) ==
    second = first \/ second = firstAfterSecond(first, second, dt)

\* would a second advanceTick(game, dt) on the same argument return a game
\* equal to the first one, read either as it was returned or as it is after
\* the second call
replayOf(argument, first, dt, draws) ==
    \A rnd2 \in draws : sameAfterReplay(first, advanceTick(argument, dt, rnd2), dt)

\* does the pass of the loop of updateProjectiles that took the game from
\* before to after belong to projectile i with (splash) or without a splash
\* radius, and did it change mob m
passChanged(before, after, i, m, splash) ==
    /\ Truthy(before.projectiles[i].splashRadius) = splash
    /\ after.mobs[m] # before.mobs[m]

passChangedAt(before, i, dt, m, splash) ==
    passChanged(before, projectileStep(before, i, dt), i, m, splash)

changedBy(fired, dt, m, splash) ==
    \E i \in 1..Len(fired.projectiles) :
       passChangedAt(projectilesDownTo(fired, Len(fired.projectiles), i, dt),
                     i, dt, m, splash)

\* some mob is changed by a splash and by a single-target hit of one
\* updateProjectiles call
hitBothWays(fired, dt) ==
    /\ Len(fired.projectiles) >= 2
    /\ \E m \in 1..Len(fired.mobs) :
          changedBy(fired, dt, m, TRUE) /\ changedBy(fired, dt, m, FALSE)

\* advanceTick(game, dt) and its histories; fired is the game of this call as
\* updateTowers returns it and flown the game as updateProjectiles returns it
TickFrom(dt, rnd, fired, flown) ==
    /\ game' = advanceTick(game, dt, rnd)
    /\ op' = [Did("advanceTick") EXCEPT !.dt = dt, !.reached = ReachedEndIn(game, dt),
                                        !.intact = (inputAfterOf(game, flown) = game),
                                        !.reward = rewardIn(game, dt, rnd[0]),
                                        !.bonus = bonusOf(cleanupEntities(flown)),
                                        !.orphans = orphansOf(game),
                                        !.both = hitBothWays(fired, dt),
                                        !.aged = agedOf(flown),
                                        !.killed = killsOf(fired, flown)]
    /\ replayEqual' = replayOf(inputAfterOf(game, flown), game', dt,
                               [0..Len(game.towers) -> Rand])
    /\ spawnLog' = logAfter(spawnLog, game, dt, rnd[0])
    /\ UNCHANGED store

TickWith(dt, rnd, fired) == TickFrom(dt, rnd, fired, updateProjectiles(fired, dt))

AdvanceTick(D) ==
    \E dt \in D, rnd \in TickDraws(Len(game.towers)) :
       TickWith(dt, rnd, beforeProjectiles(game, dt, rnd))

\* placeTower(game, pos, type) with pos and type drawn from P and T, and the
\* Math.random() of the tower's id from R
PlaceTower(P, T, R) ==
    \E pos \in P, type \in T, r \in R :
       /\ game' = placeTower(game, pos, type, r).game
       /\ op' = [Did("placeTower") EXCEPT !.pos = pos, !.type = type,
                                          !.raised = placeTower(game, pos, type, r).raised,
                                          !.intact =
                                             (placeTowerInputAfter(game, pos, type, r) = game)]
       /\ UNCHANGED <<replayEqual, spawnLog, store>>

StartNextWave ==
    /\ game' = startNextWave(game)
    /\ op' = Did("startNextWave")
    /\ store' = [store EXCEPT !.isRunning = TRUE]
    /\ UNCHANGED <<replayEqual, spawnLog>>

\* the store's pauseGame and resumeGame both call togglePause(game)
PauseGame ==
    /\ game' = togglePause(game)
    /\ op' = Did("togglePause")
    /\ store' = [store EXCEPT !.isRunning = FALSE]
    /\ UNCHANGED <<replayEqual, spawnLog>>

ResumeGame ==
    /\ game' = togglePause(game)
    /\ op' = Did("togglePause")
    /\ store' = [store EXCEPT !.isRunning = TRUE]
    /\ UNCHANGED <<replayEqual, spawnLog>>

\* as the control panel wires them: Pause on a playing game, Resume otherwise
TogglePause ==
    \/ (game.state = "playing" /\ PauseGame)
    \/ (game.state # "playing" /\ ResumeGame)

SetGameSpeed ==
    \E speed \in SpeedSet :
       /\ game' = setGameSpeed(game, speed)
       /\ op' = Did("setGameSpeed")
       /\ UNCHANGED <<replayEqual, spawnLog, store>>

StartGame ==
    /\ game' = startGame(game)
    /\ op' = Did("startGame")
    /\ store' = [store EXCEPT !.isRunning = TRUE]
    /\ UNCHANGED <<replayEqual, spawnLog>>

\* the store's update(deltaTime) with deltaTime drawn from D
Update(D) ==
    \E deltaTime \in D :
       /\ game' = update(store, game, deltaTime, spawnLog).game
       /\ store' = [store EXCEPT
                      !.accumulator = update(store, game, deltaTime, spawnLog).remainingTime]
       /\ op' = [Did("update") EXCEPT
                   !.ticks = update(store, game, deltaTime, spawnLog).ticks,
                   !.late = update(store, game, deltaTime, spawnLog).late]
       /\ spawnLog' = update(store, game, deltaTime, spawnLog).log
       /\ UNCHANGED replayEqual

\* Spec: every command in every order, over a short game
Next ==
    \/ (game.tickCount < MaxTicks /\ AdvanceTick(DtSet))
    \/ (Len(game.towers) < MaxTowers /\ PlaceTower(PlaceSet, TypeSet, Rand))
    \/ (game.currentWave < MaxWaveStarts /\ StartNextWave)
    \/ TogglePause
    \/ SetGameSpeed
    \/ StartGame

Spec == Init /\ [][Next]_vars

\* SpecCombat: towers beside the base and fine-grained ticks, nothing else
CombatPlaceSet == {<<MapWidth - 1, pathY - 1>>, <<MapWidth - 1, pathY + 1>>}

NextCombat ==
    \/ (game.tickCount < CombatTicks /\ AdvanceTick(DtSet))
    \/ (Len(game.towers) < CombatTowers /\ PlaceTower(CombatPlaceSet, {"arrow"}, Rand))

SpecCombat == Init /\ [][NextCombat]_vars

\* SpecBuild: towers of every type, and of unknown types, on the tiles of
\* PlaceSet, between half-second ticks
BuildTypeSet == TOWER_TYPES \cup {"laser"} \cup ObjectPrototypeKeys

NextBuild ==
    \/ (game.tickCount < BuildTicks /\ AdvanceTick({TimeScale \div 2}))
    \/ (Len(game.towers) < BuildTowers /\ PlaceTower(PlaceSet, BuildTypeSet, Rand))

SpecBuild == Init /\ [][NextBuild]_vars

\* SpecFinale: one tower beside the base, half-second ticks, and Next Wave
\* pressed at any moment until no wave is left.  The id of the only tower is
\* compared with no other tower's, so its draw is fixed.
NextFinale ==
    \/ (game.tickCount < FinaleTicks /\ AdvanceTick({TimeScale \div 2}))
    \/ (Len(game.towers) < FinaleTowers
          /\ PlaceTower({<<MapWidth - 1, pathY - 1>>}, {"arrow"}, {0}))
    \/ (game.currentWave < game.totalWaves /\ StartNextWave)

SpecFinale == Init /\ [][NextFinale]_vars

\* SpecRush: a whole game without towers in two-second ticks.  Next Wave is
\* pressed before the first tick (skipping waves), as soon as the wave being
\* spawned is complete, or after the game is lost; the game is paused and
\* resumed at any moment.
WaveDone == game.currentWave < game.totalWaves /\ game.waves[game.currentWave + 1].isComplete

RushMayStart ==
    /\ game.currentWave < game.totalWaves
    /\ (game.tickCount = 0 \/ WaveDone \/ game.state = "gameOver")

NextRush ==
    \/ (game.state = "menu" /\ StartGame)
    \/ (game.tickCount < RushTicks /\ ~WaveDone /\ AdvanceTick({2 * TimeScale}))
    \/ (RushMayStart /\ StartNextWave)
    \/ TogglePause

SpecRush == Init /\ [][NextRush]_vars

\* SpecUI: the store's UI commands between half-second ticks.  A tower is
\* placed through the store, which hands the build mode to placeTower, and
\* only while a build mode is set.
EnterBuildMode ==
    \E towerType \in UITypeSet :
       /\ game' = enterBuildMode(game, towerType)
       /\ op' = [Did("enterBuildMode") EXCEPT !.type = towerType]
       /\ UNCHANGED <<replayEqual, spawnLog, store>>

ExitBuildMode ==
    /\ game' = exitBuildMode(game)
    /\ op' = Did("exitBuildMode")
    /\ UNCHANGED <<replayEqual, spawnLog, store>>

\* the tower list shows the towers of the game: one of them is selected
SelectTower ==
    \E i \in 1..Len(game.towers) :
       /\ game' = selectTower(game, game.towers[i].id)
       /\ op' = Did("selectTower")
       /\ UNCHANGED <<replayEqual, spawnLog, store>>

DeselectTower ==
    /\ game' = deselectTower(game)
    /\ op' = Did("deselectTower")
    /\ UNCHANGED <<replayEqual, spawnLog, store>>

SetHoveredTile ==
    \E pos \in UITileSet \cup {NoTile} :
       /\ game' = setHoveredTile(game, pos)
       /\ op' = Did("setHoveredTile")
       /\ UNCHANGED <<replayEqual, spawnLog, store>>

NextUI ==
    \/ (game.tickCount < UITicks /\ AdvanceTick({TimeScale \div 2}))
    \/ (game.buildMode # NoType /\ Len(game.towers) < UITowers
          /\ PlaceTower(UITileSet, {game.buildMode}, {0}))
    \/ EnterBuildMode
    \/ ExitBuildMode
    \/ SelectTower
    \/ DeselectTower
    \/ SetHoveredTile

SpecUI == Init /\ [][NextUI]_vars

\* SpecUnits: findTarget and a single-target projectile hit as functions of
\* their arguments.  The game starts with one tower (arrow, range 3, or frost,
\* range 2.5) and up to UnitMobs mobs drawn, with repetition, from UnitKit:
\* mobs near the tower, exactly 2.5 and exactly 3 tiles from its tile, out of
\* range, dead, and at the base, worn down to a few health points.
UnitTile == <<MapWidth - 1, pathY - 1>>

UnitTowers == {createTower(TOWER_DEFINITIONS(type), UnitTile, 0, 0) : type \in {"arrow", "frost"}}

\* a mob of the given type at offset (dx, dy) from the corner of the tower's tile
UnitMob(type, dx, dy, hp, prog, isDead, reachedEnd) ==
    [createMob(type, 0, 0) EXCEPT !.x = UnitTile[1] * PosScale + dx,
                                  !.y = UnitTile[2] * PosScale + dy,
                                  !.hp = hp, !.prog = prog,
                                  !.isDead = isDead, !.reachedEnd = reachedEnd]

UnitKit ==
    {UnitMob("normal", PosScale \div 2, (3 * PosScale) \div 2, 3, PosScale, FALSE, FALSE),
     UnitMob("normal", (3 * PosScale) \div 2, 2 * PosScale, 3, 2 * PosScale, FALSE, FALSE),
     UnitMob("tank", 0, 3 * PosScale, 2, PosScale, FALSE, FALSE),
     UnitMob("tank", 3 * PosScale, 3 * PosScale, 9, (5 * PosScale) \div 2, FALSE, FALSE),
     UnitMob("fast", PosScale \div 2, PosScale, 0, (5 * PosScale) \div 2, TRUE, FALSE),
     UnitMob("fast", PosScale \div 2, PosScale, 9, (PathLen - 1) * PosScale, FALSE, TRUE)}

\* mobs carry pairwise different ids: their position in the list is their spawn time
UnitMobLists ==
    {[k \in DOMAIN list |-> [list[k] EXCEPT !.id = MakeId("mob", k, 0)]] :
        list \in UNION {[1..n -> UnitKit] : n \in 0..UnitMobs}}

\* the five values of TargetingStrategy, and a value that is none of them
StrategySet == {"first", "last", "strongest", "weakest", "nearest", "random"}

\* damage of the projectile: below, at and above the tank's armor of 5
DamageSet == {1, 5, 6, 7}

InitUnits ==
    /\ \E tower \in UnitTowers, mobs \in UnitMobLists :
          game = [createInitialGame EXCEPT !.towers = <<tower>>, !.mobs = mobs]
    /\ op = NoOp
    /\ replayEqual = TRUE
    /\ spawnLog = [i \in 1..Len(WAVE_DEFINITIONS) |-> <<>>]
    /\ store = initialStore

\* findTarget(tower, game.mobs, strategy)
FindTarget ==
    \E strategy \in StrategySet :
       /\ op' = [Did("findTarget") EXCEPT
                   !.strategy = strategy,
                   !.target = findTarget(game.towers[1], game.mobs, strategy)]
       /\ UNCHANGED <<game, replayEqual, spawnLog, store>>

\* applyProjectileHit of a projectile without splash radius, fired by the
\* tower at mob i.  updateProjectiles finds the target by id and drops the
\* projectile of a dead target; a target at the base is hit like any other.
Hit ==
    \E i \in 1..Len(game.mobs), d \in DamageSet :
       LET tower == game.towers[1]
           target == game.mobs[i]
           projectile == [createProjectile(tower, target, game.time, 0) EXCEPT !.damage = d]
       IN /\ ~target.isDead
          /\ game' = applyProjectileHit(game, projectile, target, tower)
          /\ op' = [Did("hit") EXCEPT !.index = i, !.damage = d, !.hp = target.hp]
          /\ UNCHANGED <<replayEqual, spawnLog, store>>

\* one hit per run: no mob has been hit and no bounty paid
NoHitYet == game.money = createInitialGame.money /\ game.mobs \in UnitMobLists

NextUnits ==
    \/ FindTarget
    \/ (NoHitYet /\ Hit)

SpecUnits == InitUnits /\ [][NextUnits]_vars

\* SpecRestart: the games of SpecRush, restarted at any moment.  The histories
\* start over with the new game.
RestartGame ==
    /\ game' = restartGame(game)
    /\ op' = [Did("restartGame") EXCEPT
                !.completed = Cardinality({i \in 1..Len(game.waves) :
                                             game.waves[i].isComplete})]
    /\ replayEqual' = TRUE
    /\ spawnLog' = [i \in 1..Len(WAVE_DEFINITIONS) |-> <<>>]
    /\ store' = initialStore

NextRestart ==
    \/ NextRush
    \/ RestartGame

SpecRestart == Init /\ [][NextRestart]_vars

\* SpecWaves: the first waves in half-second ticks (shorter than the spacing
\* of their entries and than a mob's walk to the base), with Next Wave pressed
\* at any moment, and with or without an arrow tower built beside the base
\* before the first tick.  The id of the only tower is compared with no other
\* tower's, so its draw is fixed.
NextWaves ==
    \/ (game.tickCount < WaveTicks /\ AdvanceTick({TimeScale \div 2}))
    \/ (game.currentWave < WaveStarts /\ StartNextWave)
    \/ (game.tickCount = 0 /\ Len(game.towers) < WaveTowers
          /\ PlaceTower({<<MapWidth - 1, pathY - 1>>}, {"arrow"}, {0}))

SpecWaves == Init /\ [][NextWaves]_vars

\* SpecFlight: arrow towers built beside the base before the first tick, then
\* ticks of 1/8 s and 1/2 s.  The towers' ids are drawn pairwise different.
NextFlight ==
    \/ (game.tickCount < FlightTicks /\ AdvanceTick(DtSet))
    \/ (game.tickCount = 0 /\ Len(game.towers) < FlightTowers
          /\ PlaceTower(CombatPlaceSet, {"arrow"}, {Len(game.towers)}))

SpecFlight == Init /\ [][NextFlight]_vars

\* SpecSplash: a frost tower below the path and a cannon above it, built
\* before the first tick, then ticks of 1/8 s and 1/2 s
NextSplash ==
    \/ (game.tickCount < SplashTicks /\ AdvanceTick(DtSet))
    \/ (game.tickCount = 0 /\ Len(game.towers) = 0
          /\ PlaceTower({<<MapWidth - 2, pathY + 1>>}, {"frost"}, {0}))
    \/ (game.tickCount = 0 /\ Len(game.towers) = 1
          /\ PlaceTower({<<MapWidth - 3, pathY - 1>>}, {"cannon"}, {1}))

SpecSplash == Init /\ [][NextSplash]_vars

\* SpecDelay: a game without towers in half-second ticks in which Next Wave is
\* pressed at any moment, up to the wave whose second entry waits 5 s behind
\* three mobs spaced by 1 s
NextDelay ==
    \/ (game.tickCount < DelayTicks /\ AdvanceTick({TimeScale \div 2}))
    \/ (game.currentWave < DelayStarts /\ StartNextWave)

SpecDelay == Init /\ [][NextDelay]_vars

\* SpecAge: towers beside the first tiles of the path, built before the
\* first tick, then ticks of 1/2 s and of 5 s
NextAge ==
    \/ (game.tickCount < AgeTicks /\ AdvanceTick({TimeScale \div 2, 5 * TimeScale}))
    \/ (game.tickCount = 0 /\ Len(game.towers) < AgeTowers
          /\ PlaceTower({<<1, pathY - 1>>, <<2, pathY + 1>>}, {"arrow", "frost"},
                        {Len(game.towers)}))

SpecAge == Init /\ [][NextAge]_vars

\* SpecPhases: at most one cannon below the first tiles of the path, built
\* before the first tick.  Either the first wave is played in half-second
\* ticks until its last mob is out and in ticks of 1/8 s and 1/2 s from then
\* on, or Next Wave is pressed after the first or second tick, up to the last wave, and
\* the mob on the path is played in ticks of 1/8 s and 1/2 s.
NextPhases ==
    \/ (game.tickCount = 0 /\ game.towers = <<>>
          /\ PlaceTower({<<0, pathY + 1>>, <<1, pathY + 1>>}, {"cannon"}, {0}))
    \/ (game.currentWave = 0 /\ game.tickCount < PhaseLead
          /\ AdvanceTick({TimeScale \div 2}))
    \/ (game.currentWave = 0 /\ game.tickCount >= PhaseLead /\ game.tickCount < PhaseTicks
          /\ AdvanceTick(DtSet))
    \/ (game.tickCount \in {1, 2} /\ game.currentWave < game.totalWaves /\ StartNextWave)
    \/ (game.currentWave > 0 /\ game.tickCount < PhaseRushTicks /\ AdvanceTick(DtSet))

SpecPhases == Init /\ [][NextPhases]_vars

\* SpecLoop: the store's game loop without towers: update is called with
\* the time of one tick, of one and a half and of three ticks; the game is
\* started, paused and resumed and Next Wave is pressed at any moment
NextLoop ==
    \/ (game.state = "menu" /\ StartGame)
    \/ (game.tickCount < LoopTicks /\ Update({TICK_DURATION, TICK_DURATION + TICK_DURATION \div 2,
                    3 * TICK_DURATION}))
    \/ (game.currentWave < game.totalWaves /\ StartNextWave)
    \/ PauseGame
    \/ ResumeGame

SpecLoop == Init /\ [][NextLoop]_vars

\* SpecSlow: a game without towers in half-second ticks; between the ticks
\* applySlow is called on the first mob of the list at the game's time, with
\* durations of 1 s and 3 s and amounts of 0 (raised to the minimum 0.1), 0.5
\* and 0.8
\* newGame.mobs[i] = applySlow(mob, duration, amount, newGame.time) for mob 1
ApplySlow ==
    \E duration \in {TimeScale, 3 * TimeScale}, amount \in {0, 5, 8} :
       /\ game.mobs # <<>>
       /\ game' = [game EXCEPT !.mobs[1] = applySlow(game.mobs[1], duration, amount, game.time)]
       /\ op' = [Did("applySlow") EXCEPT !.duration = duration, !.amount = amount]
       /\ UNCHANGED <<replayEqual, spawnLog, store>>

NextSlow ==
    \/ (game.tickCount < SlowTicks /\ AdvanceTick({TimeScale \div 2}))
    \/ ApplySlow

SpecSlow == Init /\ [][NextSlow]_vars

\* SpecLeave: the first wave of a game without towers, in half-second ticks
\* for as long as the slowest mob can take.  Between the ticks applySlow is called
\* on the first mob of the list, for 1 s with amounts of 0 (raised to the
\* minimum 0.1) and 0.5.
LeaveTick == game.tickCount < LeaveTicks /\ AdvanceTick({TimeScale \div 2})

\* newGame.mobs[i] = applySlow(mob, slowDuration, slowAmount, newGame.time) for mob 1
SlowFirst ==
    \E amount \in {0, 5} :
       /\ game.mobs # <<>>
       /\ game' = [game EXCEPT !.mobs[1] = applySlow(game.mobs[1], TimeScale, amount, game.time)]
       /\ op' = [Did("applySlow") EXCEPT !.duration = TimeScale, !.amount = amount]
       /\ UNCHANGED <<replayEqual, spawnLog, store>>

NextLeave ==
    \/ LeaveTick
    \/ SlowFirst

\* advanceTick is called again and again: the ticks are weakly fair.  This is
\* WF_vars(LeaveTick) written out, with ENABLED <<LeaveTick>>_vars replaced by
\* its value: advanceTick accepts every game and counts the tick, so the step
\* is enabled exactly while tickCount is below LeaveTicks.
FairLeave == []<>(game.tickCount >= LeaveTicks) \/ []<><<LeaveTick>>_vars

SpecLeave == Init /\ [][NextLeave]_vars /\ FairLeave


\* SpecBlast: the splash branch of applyProjectileHit as a function of its
\* arguments.  The game starts with one cannon (splash radius 1.5 tiles) and
\* up to BlastMobs mobs drawn, with repetition, from BlastKit: mobs at the
\* impact point, at half the radius, exactly on the radius, just beyond it
\* (by less than one position unit), dead and at the base.  Every distance
\* that is within the radius is a whole number of position units.
BlastKit ==
    {UnitMob("tank", 0, 0, 150, PosScale, FALSE, FALSE),
     UnitMob("normal", (3 * PosScale) \div 4, 0, 50, PosScale, FALSE, FALSE),
     UnitMob("tank", (9 * PosScale) \div 10, (6 * PosScale) \div 5, 150, 2 * PosScale, FALSE, FALSE),
     UnitMob("tank", (9 * PosScale) \div 10 + 1, (6 * PosScale) \div 5, 150, 2 * PosScale, FALSE, FALSE),
     UnitMob("fast", 0, 0, 0, PosScale, TRUE, FALSE),
     UnitMob("fast", 0, 0, 9, (PathLen - 1) * PosScale, FALSE, TRUE)}

\* mobs carry pairwise different ids: their position in the list is their spawn time
InitBlast ==
    /\ \E n \in 0..BlastMobs : \E list \in [1..n -> BlastKit] :
          game = [createInitialGame EXCEPT
                    !.towers = <<createTower(TOWER_DEFINITIONS("cannon"), UnitTile, 0, 0)>>,
                    !.mobs = [k \in 1..n |-> [list[k] EXCEPT !.id = MakeId("mob", k, 0)]]]
    /\ op = NoOp
    /\ replayEqual = TRUE
    /\ spawnLog = [i \in 1..Len(WAVE_DEFINITIONS) |-> <<>>]
    /\ store = initialStore

\* applyProjectileHit of a cannon projectile aimed at mob i, at the moment it
\* is created (its position is the tower's tile); its base damage is drawn to
\* meet the clamp to 1 (1), a fractional half (3) and the cannon's own
Splash ==
    \E i \in 1..Len(game.mobs), d \in {1, 3, TOWER_DEFINITIONS("cannon").damage} :
       LET tower == game.towers[1]
           target == game.mobs[i]
           projectile == [createProjectile(tower, target, game.time, 0) EXCEPT !.damage = d]
       IN /\ op.name = "init"
          /\ game' = applyProjectileHit(game, projectile, target, tower)
          /\ op' = [Did("splash") EXCEPT !.index = i, !.damage = d]
          /\ UNCHANGED <<replayEqual, spawnLog, store>>

SpecBlast == InitBlast /\ [][Splash]_vars


\* SpecGrid: findPath and findMultiplePaths as functions of the map.  The
\* map is the default map, or a corridor of the three rows around the path
\* row (every other tile blocked) in which up to GridBlocked tiles, the
\* spawn points' and the base's among them, are blocked; it has the default
\* spawn point or three spawn points, one of them off the grid, and its base
\* on the path row or below it.  map.paths is empty until findMultiplePaths
\* fills it, as in createDefaultMap.
InitGrid ==
    /\ LET cells == {<<x, y>> : x \in 0..(MapWidth - 1), y \in (pathY - 1)..(pathY + 1)}
           tiles(blocked) ==
               [y \in 0..(MAP_HEIGHT - 1) |->
                  [x \in 0..(MapWidth - 1) |->
                     IF <<x, y>> \in cells \ blocked THEN TileAt(x, y) ELSE "blocked"]]
       IN \E map \in {[createDefaultMap EXCEPT !.paths = <<>>]}
                     \cup {[tiles |-> tiles(blocked), paths |-> <<>>,
                            spawnPoints |-> spawnPoints, basePosition |-> base] :
                             blocked \in {b \in SUBSET cells : Cardinality(b) <= GridBlocked},
                             spawnPoints \in {<<spawnPoint>>,
                                              <<<<0, pathY - 1>>, <<-1, pathY>>, spawnPoint>>},
                             base \in {basePosition, <<MapWidth - 1, pathY + 1>>}} :
             game = [k \in DOMAIN createInitialGame \cup {"map"} |->
                       IF k = "map" THEN map ELSE createInitialGame[k]]
    /\ op = NoOp
    /\ replayEqual = TRUE
    /\ spawnLog = [i \in 1..Len(WAVE_DEFINITIONS) |-> <<>>]
    /\ store = initialStore

\* map.paths = pathfinder.findMultiplePaths()
FindMultiplePaths ==
    /\ op.name = "init"
    /\ game' = [game EXCEPT !.map.paths = findMultiplePaths(game.map)]
    /\ op' = Did("findMultiplePaths")
    /\ UNCHANGED <<replayEqual, spawnLog, store>>

\* pathfinder.findPath(start, end), between tiles on and off the grid
FindPath ==
    \E start \in {spawnPoint, <<1, pathY - 1>>, <<-1, pathY>>},
       end \in {basePosition, <<MapWidth - 1, pathY + 1>>, spawnPoint, <<0, MAP_HEIGHT>>} :
       /\ op.name = "init"
       /\ Len(game.map.spawnPoints) = 1
       /\ game.map.basePosition = basePosition
       /\ op' = [Did("findPath") EXCEPT !.pos = start, !.to = end,
                                        !.path = findPath(game.map, start, end)]
       /\ UNCHANGED <<game, replayEqual, spawnLog, store>>

SpecGrid == InitGrid /\ [][FindMultiplePaths \/ FindPath]_vars


\* SpecBank: the five commands the engine exports, with enough placements to
\* spend all the money: the first tower is a cannon (40) or a frost tower
\* (30), the others are cannons; the n-th goes on the n-th tile of the top
\* rows, out of reach of the path, so the ticks in between stay short.
NextBank ==
    \/ (Len(game.towers) < BankTowers
        /\ PlaceTower({<<Len(game.towers) % MapWidth, Len(game.towers) \div MapWidth>>},
                      IF Len(game.towers) = 0 THEN {"cannon", "frost"} ELSE {"cannon"},
                      {0}))
    \/ (game.tickCount < BankTicks /\ AdvanceTick({TimeScale \div 2}))
    \/ (game.currentWave < BankStarts /\ StartNextWave)
    \/ TogglePause
    \/ SetGameSpeed

SpecBank == Init /\ [][NextBank]_vars


\* SpecStarts: startNextWave at any moment, also after the last wave has
\* been started, between the other commands: a few half-second ticks, one
\* placement, pauses and speed changes.
NextStarts ==
    \/ StartNextWave
    \/ (game.tickCount < StartsTicks /\ AdvanceTick({TimeScale \div 2}))
    \/ (Len(game.towers) = 0 /\ PlaceTower({<<0, 0>>}, {"arrow"}, {0}))
    \/ TogglePause
    \/ SetGameSpeed

SpecStarts == Init /\ [][NextStarts]_vars

----------------------------------------------------------------------------
(* Claims *)

Occupied(g, pos) == \E i \in 1..Len(g.towers) : g.towers[i].tile = pos

\* C1: placeTower with a known type, money >= the type's base cost, a
\* buildable tile and no tower on it returns a game whose tower list is the
\* old one plus one tower, whose money is lower by the base cost, and whose
\* new tower has tile = pos, tier 1 and the type's base stats.
C1_PlaceTowerSuccess ==
    [][(/\ op'.name = "placeTower"
        /\ op'.type \in TOWER_TYPES
        /\ game.money >= TOWER_DEFINITIONS(op'.type).baseCost
        /\ isBuildable(op'.pos)
        /\ ~Occupied(game, op'.pos))
       => LET towerDef == TOWER_DEFINITIONS(op'.type)
              tower == game'.towers[Len(game'.towers)]
          IN /\ ~op'.raised
             /\ Len(game'.towers) = Len(game.towers) + 1
             /\ SubSeq(game'.towers, 1, Len(game.towers)) = game.towers
             /\ game'.money = game.money - towerDef.baseCost
             /\ tower.tile = op'.pos
             /\ tower.tier = 1
             /\ tower.kind = op'.type
             /\ tower.cost = towerDef.baseCost
             /\ tower.range = towerDef.range
             /\ tower.rate = towerDef.rate
             /\ tower.damage = towerDef.damage
             /\ tower.projectileSpeed = towerDef.projectileSpeed
             /\ tower.splashRadius = towerDef.splashRadius
             /\ tower.slowDuration = towerDef.slowDuration
             /\ tower.slowAmount = towerDef.slowAmount]_vars

\* a frost tower has just been placed beside an older tower, in a running game
C1_Placed ==
    /\ op.name = "placeTower" /\ op.type = "frost" /\ ~op.raised
    /\ Len(game.towers) = 2
    /\ game.towers[2].tile = op.pos
    /\ game.towers[2].kind = "frost"
    /\ game.tickCount > 0

\* C2: placeTower is a silent no-op on every invalid placement: with an
\* unknown type, money < base cost, a tile off the map, a tile that is not
\* buildable or a tile that holds a tower, the returned game has the same
\* towers and money and no error is raised.
C2_InvalidPlacementNoOp ==
    [][(/\ op'.name = "placeTower"
        /\ \/ op'.type \notin TOWER_TYPES
           \/ game.money < TOWER_DEFINITIONS(op'.type).baseCost
           \/ ~GridIsValid(op'.pos[1], op'.pos[2])
           \/ ~isBuildable(op'.pos)
           \/ Occupied(game, op'.pos))
       => /\ game'.towers = game.towers
          /\ game'.money = game.money
          /\ ~op'.raised]_vars

\* placeTower has thrown
C2_Raised == op.name = "placeTower" /\ op.raised

\* C3: every advanceTick(game, dt) returns a game whose time is the input
\* time + dt and whose tickCount is the input tickCount + 1, in every
\* lifecycle state.
C3_TickAdvancesClock ==
    [][op'.name = "advanceTick"
       => /\ game'.time = game.time + op'.dt
          /\ game'.tickCount = game.tickCount + 1]_vars

\* a tick has been taken on a game that was lost, with mobs on the field
C3_TickedWhenLost ==
    /\ op.name = "advanceTick" /\ op.from = "gameOver"
    /\ game.mobs # <<>>

\* C4: createInitialGame() is in state 'menu' with money 100, lives 20,
\* currentWave 0 and empty mob, tower and projectile lists.
C4_InitialGame ==
    op.name = "init" =>
       /\ game.state = "menu"
       /\ game.money = 100
       /\ game.lives = 20
       /\ game.currentWave = 0
       /\ game.mobs = <<>> /\ game.towers = <<>> /\ game.projectiles = <<>>

\* C5: in every advanceTick, lives decrease by exactly the number of mobs
\* whose reachedEnd flag became set in that tick, and no mob with
\* reachedEnd = true remains in the returned mob list.
C5_LivesPerReachedMob ==
    [][op'.name = "advanceTick" =>
         /\ game'.lives = game.lives - op'.reached
         /\ \A i \in 1..Len(game'.mobs) : ~game'.mobs[i].reachedEnd]_vars


\* a mob reached the base in the last tick, and no life has been lost so far
C5_ReachedBaseForFree ==
    /\ op.name = "advanceTick"
    /\ op.reached > 0
    /\ game.lives = createInitialGame.lives

\* C6: over advanceTick, togglePause, startNextWave, setGameSpeed, placeTower
\* and startGame, every change of Game.state follows menu->playing,
\* playing->paused, paused->playing, playing->gameOver or playing->victory;
\* gameOver and victory are terminal.
C6_LifecycleEdges ==
    LET Edges == {<<"menu", "playing">>, <<"playing", "paused">>, <<"paused", "playing">>,
                  <<"playing", "gameOver">>, <<"playing", "victory">>}
    IN op.from # game.state => <<op.from, game.state>> \in Edges

\* a lost game is being played again
C6_LostGameResumed == op.from = "gameOver" /\ game.state = "playing"

\* C7: whenever lives <= 0 at the game-state evaluation of an advanceTick,
\* the game returned by that tick is in state 'gameOver'.
C7_NoLivesIsGameOver ==
    op.name = "advanceTick" /\ game.lives <= 0 => game.state = "gameOver"

\* a tick has returned a won game without lives
C7_WonWithoutLives ==
    op.name = "advanceTick" /\ game.lives <= 0 /\ game.state = "victory"

\* C8: once the game is in state gameOver or victory, advanceTick returns
\* the same time, tickCount, mobs, towers, projectiles, waves, money, lives
\* and state as its input.
C8_TerminalTickIsFrozen ==
    [][op'.name = "advanceTick" /\ game.state \in {"gameOver", "victory"}
       => /\ game'.time = game.time /\ game'.tickCount = game.tickCount
          /\ game'.mobs = game.mobs /\ game'.towers = game.towers
          /\ game'.projectiles = game.projectiles /\ game'.waves = game.waves
          /\ game'.money = game.money /\ game'.lives = game.lives
          /\ game'.state = game.state]_vars

\* a tick on a won game has been counted
C8_TickedWhenWon ==
    op.name = "advanceTick" /\ op.from = "victory" /\ game.tickCount > 1

\* C9: the game returned by advanceTick is in state 'victory' exactly when
\* currentWave >= totalWaves and, after the reached-end mobs are removed, the
\* mob list and the projectile list are empty.
C9_VictoryExactly ==
    op.name = "advanceTick" =>
       (game.state = "victory"
          <=> /\ game.currentWave >= game.totalWaves
              /\ game.mobs = <<>>
              /\ game.projectiles = <<>>)

\* a tick has returned a won game with a tower on the map, from a game that a
\* tick before had left unwon
C9_Won ==
    /\ op.name = "advanceTick" /\ op.from = "playing"
    /\ game.state = "victory"
    /\ game.towers # <<>>
    /\ game.lives < createInitialGame.lives

\* C10: two calls advanceTick(g, dt) on the same g with the same dt return
\* equal games (time, entity lists with their ids, wave progress, money,
\* lives, state).
C10_TickRepeatable == op.name = "advanceTick" => replayEqual

\* the second call would not return what the first one did
C10_ReplayDiffers == op.name = "advanceTick" /\ ~replayEqual

\* C11: advanceTick and placeTower leave the Game object they were given as
\* it was: its mob, projectile and tower lists, the progress fields of its
\* waves and the fields of its mobs read after the call as they read before.
C11_InputUntouched == op.name \in {"advanceTick", "placeTower"} => op.intact

\* a tick, or an accepted placement, after which the argument reads differently
C11_InputChanged == op.name \in {"advanceTick", "placeTower"} /\ ~op.intact

\* C12: a wave never skips an entry.  The spawns of a wave are ordered by
\* entry index and each is of its entry's kind; every entry the wave has left
\* behind has spawned exactly entry.count mobs, the entry it is at has spawned
\* currentSpawnCount of them; and once the wave is marked complete it has left
\* every entry behind and has spawned the sum of its entries' counts.
C12_EntriesInOrder ==
    \A i \in 1..Len(game.waves) :
       LET wave == game.waves[i]
           entries == WAVE_DEFINITIONS[i].entries
           log == spawnLog[i]
           spawnsOf(e) == Len(SelectSeq(log, LAMBDA s : s.entry = e))
           RECURSIVE total(_)
           total(n) == IF n = 0 THEN 0 ELSE entries[n].count + total(n - 1)
       IN /\ \A k \in 1..Len(log) :
                /\ log[k].entry \in 0..(Len(entries) - 1)
                /\ log[k].kind = entries[log[k].entry + 1].kind
                /\ k < Len(log) => log[k].entry <= log[k + 1].entry
          /\ wave.currentEntryIndex \in 0..Len(entries)
          /\ \A e \in 0..(Len(entries) - 1) :
                /\ e < wave.currentEntryIndex => spawnsOf(e) = entries[e + 1].count
                /\ e = wave.currentEntryIndex => spawnsOf(e) = wave.currentSpawnCount
                /\ e > wave.currentEntryIndex => spawnsOf(e) = 0
          /\ wave.isComplete =>
                /\ wave.currentEntryIndex = Len(entries)
                /\ Len(log) = total(Len(entries))

\* a wave of three entries has been spawned to its end
C12_ThreeEntriesDone ==
    /\ game.waves[4].isComplete
    /\ Len(spawnLog[4]) = 21
    /\ spawnLog[4][21].kind = "tank"

\* C13: within one wave entry two consecutive spawns are at least the entry's
\* spacing apart in simulation time, and no tick spawns more than one mob (no
\* two spawns of the game carry the same time).
C13_SpawnsSpaced ==
    /\ \A i \in 1..Len(spawnLog) :
          \A k \in 1..(Len(spawnLog[i]) - 1) :
             LET a == spawnLog[i][k]
                 b == spawnLog[i][k + 1]
             IN a.entry = b.entry =>
                   b.time - a.time >= WAVE_DEFINITIONS[i].entries[a.entry + 1].spacing
    /\ \A i, j \in 1..Len(spawnLog) :
          \A k \in 1..Len(spawnLog[i]), l \in 1..Len(spawnLog[j]) :
             spawnLog[i][k].time = spawnLog[j][l].time => (i = j /\ k = l)

\* an entry spaced by 0.8 s has spawned twice, in ticks of half a second
C13_TwoSpawnsOfOneEntry ==
    /\ Len(spawnLog[2]) >= 2
    /\ spawnLog[2][1].entry = spawnLog[2][2].entry
    /\ op.name = "advanceTick" /\ op.dt < WAVE_DEFINITIONS[2].entries[1].spacing

\* C14: a wave's completion reward 50 + 10 * id is paid in the tick that marks
\* the wave complete and at no other time: the money updateWaves adds in a
\* tick is the reward of the waves that tick marks complete (at most one),
\* only a tick marks a wave complete, and a complete wave stays complete under
\* every command; hence the reward is paid at most once per wave.
C14_RewardOnCompletion ==
    [][LET finished == {i \in 1..Len(game.waves) :
                          ~game.waves[i].isComplete /\ game'.waves[i].isComplete}
       IN /\ \A i \in 1..Len(game.waves) :
                game.waves[i].isComplete => game'.waves[i].isComplete
          /\ Cardinality(finished) <= 1
          /\ finished # {} => op'.name = "advanceTick"
          /\ \A i \in finished :
                /\ game.waves[i].currentEntryIndex + 1 = Len(WAVE_DEFINITIONS[i].entries)
                /\ op'.reward = 50 + 10 * game.waves[i].id
          /\ finished = {} => op'.reward = 0
          \* without towers there is no bounty: money grows by the reward and
          \* by the clear bonus 25 + 5 * id of the wave whose bonusGiven is set
          /\ (op'.name = "advanceTick" /\ game.towers = <<>>) =>
                LET cleared == {i \in 1..Len(game.waves) :
                                  ~game.waves[i].bonusGiven /\ game'.waves[i].bonusGiven}
                    pay(S, base, step) ==
                        IF S = {} THEN 0 ELSE base + step * game.waves[CHOOSE i \in S : TRUE].id
                IN /\ Cardinality(cleared) <= 1
                   /\ game'.money = game.money + pay(finished, 50, 10) + pay(cleared, 25, 5)]_vars

\* the tick that completed the fourth wave has paid its 90
C14_FourthWaveRewarded ==
    /\ op.name = "advanceTick"
    /\ op.reward = 90
    /\ game.waves[4].isComplete
    /\ game.waves[1].isComplete

\* C15: a wave's clear bonus 25 + 5 * id is paid only by a tick that ends with
\* the wave complete, no mob and no projectile left, and that sets the wave's
\* bonusGiven; bonusGiven then stays true under every command, and a tick
\* that sets no bonusGiven pays no bonus; hence at most one bonus per wave.
C15_ClearBonusOnce ==
    [][LET cleared == {i \in 1..Len(game.waves) :
                         ~game.waves[i].bonusGiven /\ game'.waves[i].bonusGiven}
       IN /\ \A i \in 1..Len(game.waves) :
                game.waves[i].bonusGiven => game'.waves[i].bonusGiven
          /\ Cardinality(cleared) <= 1
          /\ \A i \in cleared :
                /\ op'.name = "advanceTick"
                /\ game'.waves[i].isComplete
                /\ game'.mobs = <<>>
                /\ game'.projectiles = <<>>
                /\ op'.bonus = 25 + 5 * game.waves[i].id
          /\ cleared = {} => op'.bonus = 0
          /\ (op'.name = "advanceTick" /\ game.towers = <<>>) =>
                game'.money = game.money + op'.reward + op'.bonus]_vars

\* the first wave was complete with mobs on the path, and a later tick, which
\* completed nothing, has paid its clear bonus of 30
C15_BonusAfterCompletion ==
    /\ op.name = "advanceTick"
    /\ op.bonus = 30
    /\ op.reward = 0
    /\ game.waves[1].bonusGiven
    /\ game.towers = <<>>
    /\ game.money = 200 + 60 + 30

\* C16: no two towers stand on the same tile, and every tower stands on a
\* tile of the map whose type is buildable.
C16_TowersApartOnBuildable ==
    /\ \A i, j \in 1..Len(game.towers) :
          game.towers[i].tile = game.towers[j].tile => i = j
    /\ \A i \in 1..Len(game.towers) :
          LET tile == game.towers[i].tile
          IN /\ tile[1] \in 0..(MapWidth - 1)
             /\ tile[2] \in 0..(MAP_HEIGHT - 1)
             /\ TileAt(tile[1], tile[2]) = "buildable"

\* a cannon was asked for on the tile of the arrow tower, with money to pay
\* for it, and was refused
C16_SecondTowerRefused ==
    /\ op.name = "placeTower"
    /\ op.type = "cannon"
    /\ Len(game.towers) = 1
    /\ game.towers[1].kind = "arrow"
    /\ game.towers[1].tile = op.pos
    /\ game.money >= TOWER_DEFINITIONS("cannon").baseCost

\* C17: findTarget returns null exactly when no mob is alive, not at the base
\* and within distance tower.range of the tower's tile; otherwise it returns
\* such a mob than which no eligible mob is better for the strategy (first:
\* greater pathProgress, last: smaller pathProgress, strongest: more hp,
\* weakest: less hp, nearest: smaller squared distance), and which is better
\* than every eligible mob before it in the list.
C17_TargetIsBestEligible ==
    (op.name = "findTarget"
       /\ op.strategy \in {"first", "last", "strongest", "weakest", "nearest"}) =>
       LET tower == game.towers[1]
           mobs == game.mobs
           dx(i) == mobs[i].x - tower.tile[1] * PosScale
           dy(i) == mobs[i].y - tower.tile[2] * PosScale
           dist2(i) == dx(i) * dx(i) + dy(i) * dy(i)
           eligible == {i \in 1..Len(mobs) :
                          /\ ~mobs[i].isDead
                          /\ ~mobs[i].reachedEnd
                          /\ dist2(i) <= tower.range * tower.range}
           better(i, j) ==
               CASE op.strategy = "first" -> mobs[i].prog > mobs[j].prog
                 [] op.strategy = "last" -> mobs[i].prog < mobs[j].prog
                 [] op.strategy = "strongest" -> mobs[i].hp > mobs[j].hp
                 [] op.strategy = "weakest" -> mobs[i].hp < mobs[j].hp
                 [] op.strategy = "nearest" -> dist2(i) < dist2(j)
       IN /\ op.target = 0 <=> eligible = {}
          /\ op.target # 0 =>
                /\ op.target \in eligible
                /\ \A j \in eligible :
                      /\ ~better(j, op.target)
                      /\ j < op.target => better(op.target, j)

\* of three eligible mobs the second and the third are equally weak, weaker
\* than the first, and the second is returned
C17_TieToEarliest ==
    /\ op.name = "findTarget"
    /\ op.strategy = "weakest"
    /\ op.target = 2
    /\ Len(game.mobs) = 3
    /\ game.mobs[3].hp = game.mobs[2].hp
    /\ game.mobs[1].hp > game.mobs[2].hp
    /\ \A i \in 1..3 : ~game.mobs[i].isDead /\ ~game.mobs[i].reachedEnd
    /\ TowerMobDist2(game.towers[1], game.mobs[3])
          = game.towers[1].range * game.towers[1].range

\* C18: a single-target hit of damage d >= 1 on a mob of armor a >= 0 and
\* health h leaves it with health max(0, h - max(1, d - a)) and dead exactly
\* when that health is 0: the hit takes at least 1 health and the health is
\* never negative.
C18_HitHealth ==
    op.name = "hit" =>
       LET mob == game.mobs[op.index]
           reduced == op.damage - mob.armor
           effective == IF reduced >= 1 THEN reduced ELSE 1
           left == IF op.hp - effective >= 0 THEN op.hp - effective ELSE 0
       IN /\ op.damage >= 1 /\ mob.armor >= 0
          /\ mob.hp = left
          /\ mob.isDead <=> mob.hp = 0
          /\ mob.hp >= 0
          /\ mob.hp <= op.hp - 1

\* a hit weaker than the armor has taken exactly 1 health and not killed
C18_ArmorLeavesOne ==
    /\ op.name = "hit"
    /\ op.damage < game.mobs[op.index].armor
    /\ game.mobs[op.index].hp = op.hp - 1
    /\ ~game.mobs[op.index].isDead

\* C19: advanceTick returns the selectedTower, hoveredTile and buildMode it
\* was given, and a game that differs from the ticked one in these three
\* fields only gives, for the same dt (and the same draws of Math.random for
\* the ids), a result with the same time, tickCount, state, mobs, towers,
\* projectiles, waves, currentWave, money and lives.
C19_TickIgnoresUI ==
    [][op'.name = "advanceTick" =>
         /\ game'.selectedTower = game.selectedTower
         /\ game'.hoveredTile = game.hoveredTile
         /\ game'.buildMode = game.buildMode
         /\ \A sel \in {NoId, MakeId("tower", 0, 0)},
               tile \in {NoTile, <<0, 0>>, <<MapWidth - 1, pathY - 1>>},
               mode \in {NoType} \cup TOWER_TYPES :
               LET other == [game EXCEPT !.selectedTower = sel, !.hoveredTile = tile,
                                         !.buildMode = mode]
                   result == advanceTick(other, op'.dt, [i \in 0..Len(game.towers) |-> 0])
                   fieldsOf(r) == <<r.time, r.tickCount, r.state, r.mobs, r.towers,
                                    r.projectiles, r.waves, r.currentWave, r.money, r.lives>>
               IN <<fieldsOf(result), result.selectedTower, result.hoveredTile,
                    result.buildMode>>
                     = <<fieldsOf(game'), sel, tile, mode>>]_vars

\* a tick in which mobs walk and a projectile flies, of a game with a tower
\* selected, a tile hovered and a build mode set
C19_TickedWithUISet ==
    /\ op.name = "advanceTick"
    /\ game.buildMode = "arrow"
    /\ game.hoveredTile # NoTile
    /\ game.towers # <<>>
    /\ game.selectedTower = game.towers[1].id
    /\ game.mobs # <<>>
    /\ game.projectiles # <<>>

\* C20: restartGame leaves a fresh game: time 0, tickCount 0, state 'menu',
\* currentWave 0, the starting money and lives, no mobs, towers or
\* projectiles, and all ten waves inactive, not complete, at entry 0 with
\* spawn count 0 and no clear bonus given; it is the game the store began with.
C20_RestartIsFresh ==
    op.name = "restartGame" =>
       /\ game.time = 0
       /\ game.tickCount = 0
       /\ game.state = "menu"
       /\ game.currentWave = 0
       /\ game.money = 200
       /\ game.lives = 100
       /\ game.mobs = <<>> /\ game.towers = <<>> /\ game.projectiles = <<>>
       /\ Len(game.waves) = 10
       /\ \A i \in 1..Len(game.waves) :
             /\ game.waves[i].id = i
             /\ ~game.waves[i].isActive
             /\ ~game.waves[i].isComplete
             /\ game.waves[i].currentEntryIndex = 0
             /\ game.waves[i].currentSpawnCount = 0
             /\ ~game.waves[i].bonusGiven
       /\ \A i \in 1..Len(spawnLog) : spawnLog[i] = <<>>

\* a game that was won, three of its waves spawned to their end and the
\* others skipped, has been restarted
C20_RestartedAfterVictory ==
    /\ op.name = "restartGame"
    /\ op.from = "victory"
    /\ op.completed = 3


\* C21: at no point of a tick is a mob both isDead and reachedEnd: a mob whose
\* reachedEnd flag updateMobs has set is left as it is by the projectile
\* phase of the tick (not damaged, not slowed, not marked dead).
C21_ReachedEndIsInert ==
    [][LET
           \* what updateProjectiles did to the mobs that were at the base before it ran:
           \* fired is the game it was given, flown the game it returned (the mob list
           \* keeps its length and order)
           atBaseUntouched(fired, flown) ==
               \A i \in 1..Len(fired.mobs) :
                  /\ ~(flown.mobs[i].isDead /\ flown.mobs[i].reachedEnd)
                  /\ fired.mobs[i].reachedEnd => flown.mobs[i] = fired.mobs[i]
           atBaseUntouchedIn(fired, dt) == atBaseUntouched(fired, updateProjectiles(fired, dt))
       IN
       op'.name = "advanceTick" =>
         \A rnd \in TickDraws(Len(game.towers)) :
            atBaseUntouchedIn(beforeProjectiles(game, op'.dt, rnd), op'.dt)]_vars

\* the only mob that reached the base so far cost no life, and the only
\* bounty paid so far was paid in the tick it arrived: it was killed at the base
C21_KilledAtBase ==
    /\ op.name = "advanceTick"
    /\ op.reached = 1
    /\ op.reward = 0 /\ op.bonus = 0
    /\ game.lives = createInitialGame.lives
    /\ game.money = createInitialGame.money
                      - Len(game.towers) * TOWER_DEFINITIONS("arrow").baseCost
                      + MOB_DEFINITIONS("normal").bounty


\* C22: every mob of entry e of wave w is spawned at a simulation time
\* >= w.startTime + e.delay, whenever the wave was started.  The spawns a tick
\* adds to the history are compared with the wave as the tick leaves it.
C22_SpawnAfterDelay ==
    [][op'.name = "advanceTick" =>
         \A w \in 1..Len(spawnLog) :
            \A k \in (Len(spawnLog[w]) + 1)..Len(spawnLog'[w]) :
               spawnLog'[w][k].time >=
                  game'.waves[w].startTime
                  + WAVE_DEFINITIONS[w].entries[spawnLog'[w][k].entry + 1].delay]_vars

\* the wave being spawned has spawned a mob of its second entry less than
\* the entry's delay after its start
C22_SpawnedBeforeDelay ==
    /\ game.currentWave < game.totalWaves
    /\ LET w == game.currentWave + 1
       IN \E k \in 1..Len(spawnLog[w]) :
             /\ spawnLog[w][k].entry = 1
             /\ spawnLog[w][k].time < game.waves[w].startTime
                                         + WAVE_DEFINITIONS[w].entries[2].delay


\* C23: when updateProjectiles comes to a projectile whose target id is not in
\* the mob list, or whose target is dead, that pass of its loop removes the
\* projectile and changes no mob (health, slow) and no money.
C23_GoneTargetPruned ==
    [][LET
           \* !target || target.isDead for projectile i of g
           targetGone(g, i) ==
               \/ FindIndexById(g.mobs, g.projectiles[i].targetId) = 0
               \/ g.mobs[FindIndexById(g.mobs, g.projectiles[i].targetId)].isDead
           \* one pass of the loop took projectile i away and left mobs and money alone
           prunedOnly(before, after, i) ==
               /\ after.projectiles = RemoveAt(before.projectiles, i)
               /\ after.mobs = before.mobs
               /\ after.money = before.money
           gonePruned(before, i, dt) ==
               targetGone(before, i) => prunedOnly(before, projectileStep(before, i, dt), i)
           noHitOnGone(fired, dt) ==
               \A i \in 1..Len(fired.projectiles) :
                  gonePruned(projectilesDownTo(fired, Len(fired.projectiles), i, dt), i, dt)
       IN
       op'.name = "advanceTick" =>
         \A rnd \in TickDraws(Len(game.towers)) :
            noHitOnGone(beforeProjectiles(game, op'.dt, rnd), op'.dt)]_vars

\* the last tick was given a projectile whose target had left the mob list
C23_OrphanProcessed == op.name = "advanceTick" /\ op.orphans > 0


\* C24: every projectile hit pays the bounty of exactly the mobs it brings to
\* health 0 (a hit that kills nobody changes no money), a dead mob is never
\* hit again, and over a whole tick money grows by the wave reward, the clear
\* bonus and one bounty for each mob that died in it.
C24_BountyOncePerKill ==
    [][LET
           \* one pass of the loop of updateProjectiles pays the bounty of the mobs it
           \* kills and nothing else, and leaves the dead as they are
           passPaysKills(before, after) ==
               /\ after.money = before.money + bountySum(before.mobs, after.mobs, Len(before.mobs))
               /\ \A k \in 1..Len(before.mobs) :
                     before.mobs[k].isDead => after.mobs[k] = before.mobs[k]
           passPaysAt(before, i, dt) == passPaysKills(before, projectileStep(before, i, dt))
           everyPassPays(fired, dt) ==
               \A i \in 1..Len(fired.projectiles) :
                  passPaysAt(projectilesDownTo(fired, Len(fired.projectiles), i, dt), i, dt)
           killsIn(fired, dt) == killsOf(fired, updateProjectiles(fired, dt))
       IN
       op'.name = "advanceTick" =>
         \A rnd \in TickDraws(Len(game.towers)) :
            /\ everyPassPays(beforeProjectiles(game, op'.dt, rnd), op'.dt)
            /\ game'.money = game.money + op'.reward + op'.bonus
                              + killsIn(beforeProjectiles(game, op'.dt, rnd), op'.dt)]_vars

\* in the last tick a splash and a single-target hit struck the same mob, and
\* the two bounties paid so far are those of the two mobs killed
C24_StruckTwiceInOneTick ==
    /\ op.name = "advanceTick" /\ op.both
    /\ game.money = createInitialGame.money
                      - TOWER_DEFINITIONS("frost").baseCost
                      - TOWER_DEFINITIONS("cannon").baseCost
                      + 2 * MOB_DEFINITIONS("normal").bounty


\* C25: in a tick a tower pushes a projectile exactly when findTarget returns
\* a mob for it and now - lastFiredAt >= 1/rate, and then its lastFiredAt is
\* now; it pushes at most one, it pushes none without an eligible mob, and any
\* two projectiles of one tower in the game carry createdAt at least 1/rate
\* apart.
C25_FiresWhenDue ==
    [][LET
           \* findTarget returns a mob for tower i of moved, and now - lastFiredAt >= 1/rate
           due(moved, i) ==
               /\ findTarget(moved.towers[i], moved.mobs,
                             TOWER_DEFINITIONS(moved.towers[i].kind).targetingStrategy) # 0
               /\ (moved.time - moved.towers[i].lastFiredAt) * moved.towers[i].rate >= 10 * TimeScale
           \* the projectiles updateTowers pushed for tower i: positions in fired.projectiles
           shotsOf(moved, fired, i) ==
               {k \in (Len(moved.projectiles) + 1)..Len(fired.projectiles) :
                   fired.projectiles[k].towerId = moved.towers[i].id}
           \* moved is the game updateTowers was given, fired the game it returned
           firesWhenDue(moved, fired) ==
               /\ Len(fired.towers) = Len(moved.towers)
               /\ SubSeq(fired.projectiles, 1, Len(moved.projectiles)) = moved.projectiles
               /\ Len(fired.projectiles) - Len(moved.projectiles)
                     = Cardinality({i \in 1..Len(moved.towers) : due(moved, i)})
               /\ \A i \in 1..Len(moved.towers) :
                     IF due(moved, i)
                     THEN /\ Cardinality(shotsOf(moved, fired, i)) = 1
                          /\ \A k \in shotsOf(moved, fired, i) :
                                fired.projectiles[k].createdAt = moved.time
                          /\ fired.towers[i].lastFiredAt = moved.time
                     ELSE /\ shotsOf(moved, fired, i) = {}
                          /\ fired.towers[i] = moved.towers[i]
           firesWhenDueIn(moved, rnd) == firesWhenDue(moved, updateTowers(moved, rnd))
           \* two projectiles of one tower were created at least 1/rate apart
           shotsApart(g) ==
               \A k, l \in 1..Len(g.projectiles) :
                  (k # l /\ g.projectiles[k].towerId = g.projectiles[l].towerId) =>
                     \A i \in 1..Len(g.towers) :
                        g.towers[i].id = g.projectiles[k].towerId =>
                           \/ (g.projectiles[k].createdAt - g.projectiles[l].createdAt)
                                 * g.towers[i].rate >= 10 * TimeScale
                           \/ (g.projectiles[l].createdAt - g.projectiles[k].createdAt)
                                 * g.towers[i].rate >= 10 * TimeScale
       IN
       op'.name = "advanceTick" =>
         /\ \A rnd \in TickDraws(Len(game.towers)) :
               firesWhenDueIn(beforeTowers(game, op'.dt, rnd[0]), rnd)
         /\ shotsApart(game')]_vars

\* after a tick shorter than its firing interval, two projectiles of one
\* tower are in flight
C25_FiredTwice ==
    /\ op.name = "advanceTick"
    /\ \E i \in 1..Len(game.towers) :
          /\ op.dt * game.towers[i].rate < 10 * TimeScale
          /\ \E k, l \in 1..Len(game.projectiles) :
                /\ k # l
                /\ game.projectiles[k].towerId = game.towers[i].id
                /\ game.projectiles[l].towerId = game.towers[i].id

\* C26: after every advanceTick each projectile of the game is younger than
\* maxProjectileAge (time - createdAt < 5 s), whether or not its target is
\* still alive
C26_ProjectilesYoung ==
    op.name = "advanceTick" =>
        \A k \in 1..Len(game.projectiles) :
            game.time - game.projectiles[k].createdAt < 5 * TimeScale

\* a tick whose cleanup dropped a projectile of full age that was still
\* chasing a live target
C26_DroppedWhileChasing ==
    /\ op.name = "advanceTick" /\ op.aged > 0
    /\ \E m \in 1..Len(game.mobs) : ~game.mobs[m].isDead

\* C27: one advanceTick runs wave spawning, mob movement, tower firing,
\* projectile flight, cleanup and game-state evaluation in this order against
\* the one time now = time + dt: a mob spawned in the tick is moved and can be
\* fired at in it, a projectile fired in the tick is advanced in it, and a mob
\* killed in the tick is gone before lives, clear bonus and victory are
\* evaluated.
C27_PhasesInOrder ==
    [][LET
           \* the ids of the mobs or projectiles of a list
           idsOf(s) == {s[k].id : k \in 1..Len(s)}
           \* findTarget returns a mob for tower i of moved, and now - lastFiredAt >= 1/rate
           due(moved, i) ==
               /\ findTarget(moved.towers[i], moved.mobs,
                             TOWER_DEFINITIONS(moved.towers[i].kind).targetingStrategy) # 0
               /\ (moved.time - moved.towers[i].lastFiredAt) * moved.towers[i].rate >= 10 * TimeScale
           \* updateWaves before updateMobs: a mob that is in the list after the tick and
           \* was not before it has left the spawn point
           spawnedAreMoved(before, after) ==
               \A k \in 1..Len(after.mobs) :
                   after.mobs[k].id \notin idsOf(before.mobs) =>
                       /\ after.mobs[k].prog > 0
                       /\ after.mobs[k].x > gridToWorld(spawnPoint[1], spawnPoint[2])[1]
           \* updateMobs before updateTowers: when the tick started without mobs and
           \* projectiles, a tower whose cooldown is over at now and that finds a target
           \* among the mobs where they stand after the tick has fired at it at now
           spawnedAreTargets(before, after) ==
               (before.mobs = <<>> /\ before.projectiles = <<>>) =>
                   \A i \in 1..Len(before.towers) :
                       LET moved == [time |-> after.time, towers |-> before.towers,
                                     mobs |-> after.mobs]
                           t == findTarget(before.towers[i], after.mobs,
                                           TOWER_DEFINITIONS(before.towers[i].kind).targetingStrategy)
                       IN due(moved, i) =>
                             \E k \in 1..Len(after.projectiles) :
                                /\ after.projectiles[k].towerId = before.towers[i].id
                                /\ after.projectiles[k].targetId = after.mobs[t].id
                                /\ after.projectiles[k].createdAt = after.time
                                /\ after.towers[i].lastFiredAt = after.time
           \* updateTowers before updateProjectiles: a projectile that is in the list
           \* after the tick and was not before it carries createdAt = now and has left
           \* the tile of its tower
           firedAreAdvanced(before, after) ==
               \A k \in 1..Len(after.projectiles) :
                   LET p == after.projectiles[k]
                       wi == FindIndexById(after.towers, p.towerId)
                   IN p.id \notin idsOf(before.projectiles) =>
                         /\ p.createdAt = after.time
                         /\ wi > 0
                         /\ <<p.x, p.y>> # <<after.towers[wi].tile[1] * PosScale,
                                             after.towers[wi].tile[2] * PosScale>>
           \* cleanupEntities before checkGameState: no dead mob is left, lives fall by
           \* the mobs that stood at the base alive when the projectiles had flown, and
           \* the clear bonus and victory are decided on the lists without the dead:
           \* flown is the game as updateProjectiles returned it
           killedAreGone(before, flown, after) ==
               /\ \A k \in 1..Len(after.mobs) : ~after.mobs[k].isDead
               /\ after.lives = before.lives
                                  - Cardinality({k \in 1..Len(flown.mobs) :
                                                   flown.mobs[k].reachedEnd /\ ~flown.mobs[k].isDead})
               /\ (/\ after.currentWave < Len(after.waves)
                   /\ after.waves[after.currentWave + 1].isComplete
                   /\ after.mobs = <<>> /\ after.projectiles = <<>>)
                     => after.waves[after.currentWave + 1].bonusGiven
               /\ (after.currentWave >= after.totalWaves
                   /\ after.mobs = <<>> /\ after.projectiles = <<>>)
                     => after.state = "victory"
           \* one time value: the tick's clock is time + dt, nothing in the game is
           \* stamped later than it, and the id of a mob spawned in the tick carries it
           oneNow(before, after, dt) ==
               /\ after.time = before.time + dt
               /\ \A k \in 1..Len(after.projectiles) : after.projectiles[k].createdAt <= after.time
               /\ \A i \in 1..Len(after.towers) : after.towers[i].lastFiredAt <= after.time
               /\ \A k \in 1..Len(after.mobs) :
                     after.mobs[k].id \notin idsOf(before.mobs) =>
                        after.mobs[k].id = MakeId("mob", after.time, 0)
       IN
       op'.name = "advanceTick" =>
          /\ oneNow(game, game', op'.dt)
          /\ spawnedAreMoved(game, game')
          /\ spawnedAreTargets(game, game')
          /\ firedAreAdvanced(game, game')
          /\ \A rnd \in TickDraws(Len(game.towers)) :
                killedAreGone(game, preCleanup(game, op'.dt, rnd), game')]_vars

\* a tick in which a projectile killed the last mob on the path: the game,
\* whose waves were all started, is won in this very tick
C27_WonOnKill ==
    /\ op.name = "advanceTick" /\ op.killed > 0
    /\ op.from = "playing" /\ game.state = "victory"
    /\ game.mobs = <<>> /\ game.lives = 100

\* C28: the store's update ticks only a running game whose state is
\* 'playing': called on any other game it changes nothing, and within one
\* call no tick is made once a tick has left the game in gameOver or victory,
\* whatever time remains.
C28_UpdateTicksOnlyPlaying ==
    [][op'.name = "update" =>
          /\ (~store.isRunning \/ game.state # "playing") =>
                (op'.ticks = 0 /\ game' = game /\ store' = store)
          /\ op'.late = 0]_vars

\* one call of update won the game with its first tick and made two more
C28_TickedOnAfterVictory ==
    /\ op.name = "update" /\ op.from = "playing"
    /\ op.ticks = 3 /\ op.late = 2
    /\ game.state = "victory"

\* C29: a mob never skips a waypoint: in a tick in which speed * dt is at
\* most the length of one path segment, the pathProgress of a mob grows by at
\* most one segment's worth and its waypoint index floor(pathProgress * (n - 1))
\* by at most 1.
C29_NoWaypointSkipped ==
    [][LET
           \* the mob with this id has moved from `before` to `after`: its pathProgress
           \* has grown by at most one segment and its waypoint index by at most 1
           withinOneSegment(before, after) ==
               /\ after.prog - before.prog <= PosScale
               /\ after.prog \div PosScale - before.prog \div PosScale <= 1
       IN
       op'.name = "advanceTick" =>
          \A k \in 1..Len(game.mobs), j \in 1..Len(game'.mobs) :
             (/\ game.mobs[k].id = game'.mobs[j].id
              /\ game.mobs[k].speed * op'.dt <= PosScale)
                => withinOneSegment(game.mobs[k], game'.mobs[j])]_vars

\* a normal mob, spawned and moved half a tile by the tick before, has been
\* put on waypoint 2 by a tick of half a second
C29_OnThirdWaypointAfterOneTile ==
    /\ op.name = "advanceTick" /\ op.dt = TimeScale \div 2
    /\ \E j \in 1..Len(game.mobs) :
          /\ game.mobs[j].id = MakeId("mob", game.time - op.dt, 0)
          /\ game.mobs[j].type = "normal"
          /\ game.mobs[j].prog = 2 * PosScale
          /\ ~game.mobs[j].reachedEnd

----------------------------------------------------------------------------
\* C31: a splash of base damage b and radius r takes from every mob that is
\* neither dead nor at the base and lies at distance s <= r of the impact
\* point max(1, floor(b * (1 - s / (2 r)))) health (as far as it has that
\* much): all of b at distance 0 and, for b >= 2, floor(b / 2) on the radius;
\* a mob beyond the radius, a dead mob and a mob at the base are left as
\* they were.
C31_SplashFalloff ==
    [][op'.name = "splash" =>
         LET r == game.towers[1].splashRadius
             b == op'.damage
             cx == game.towers[1].tile[1] * PosScale
             cy == game.towers[1].tile[2] * PosScale
             taken(k) == game.mobs[k].hp - game'.mobs[k].hp
             atMost(k, n) == IF game.mobs[k].hp >= n THEN n ELSE game.mobs[k].hp
         IN /\ Len(game'.mobs) = Len(game.mobs)
            /\ \A k \in 1..Len(game.mobs) :
                 LET m == game.mobs[k]
                     d2 == (m.x - cx) * (m.x - cx) + (m.y - cy) * (m.y - cy)
                 IN IF ~m.isDead /\ ~m.reachedEnd /\ d2 <= r * r
                    THEN \E s \in 0..r :
                           /\ s * s = d2
                           /\ \E n \in 0..b :
                                /\ n * 2 * r <= b * (2 * r - s)
                                /\ b * (2 * r - s) < (n + 1) * 2 * r
                                /\ taken(k) = atMost(k, IF n >= 1 THEN n ELSE 1)
                           /\ (s = 0 => taken(k) = atMost(k, b))
                           /\ (s = r /\ b >= 2 => taken(k) = atMost(k, b \div 2))
                    ELSE game'.mobs[k] = m]_vars

\* a cannon's splash of 80 has taken 80 from a tank at the impact point and
\* 40 from a tank exactly on the radius
C31_FullAndHalf ==
    /\ op.name = "splash"
    /\ op.damage = 80
    /\ Len(game.mobs) = 2
    /\ game.mobs[1].x = game.towers[1].tile[1] * PosScale
    /\ game.mobs[1].hp = game.mobs[1].maxHp - 80
    /\ game.mobs[2].x = game.towers[1].tile[1] * PosScale + (9 * PosScale) \div 10
    /\ game.mobs[2].hp = game.mobs[2].maxHp - 40

----------------------------------------------------------------------------
\* C32: every path findMultiplePaths stores in the map begins at a spawn
\* point and ends at the base position, each of its waypoints is 4-connected
\* adjacent to the one before, no tile occurs twice in it, and every waypoint
\* after the first is a 'path' or 'buildable' tile of the grid; the paths
\* are, in order, those of the spawn points that have a route to the base, so
\* a spawn point without one contributes no path.
C32_PathsWellFormed ==
    op.name = "findMultiplePaths" =>
       LET m == game.map
           onGrid(p) == p[1] >= 0 /\ p[1] < MapWidth /\ p[2] >= 0 /\ p[2] < MAP_HEIGHT
           walkable(p) == m.tiles[p[2]][p[1]] \in {"path", "buildable"}
           adjacent(p, q) ==
               \/ p[1] = q[1] /\ (p[2] = q[2] + 1 \/ q[2] = p[2] + 1)
               \/ p[2] = q[2] /\ (p[1] = q[1] + 1 \/ q[1] = p[1] + 1)
           cells == {<<x, y>> : x \in 0..(MapWidth - 1), y \in 0..(MAP_HEIGHT - 1)}
           RECURSIVE reached(_, _)
           reached(frontier, seen) ==
               LET next == {q \in cells \ seen :
                               walkable(q) /\ \E p \in frontier : adjacent(p, q)}
               IN IF next = {} THEN seen ELSE reached(next, seen \cup next)
           routed(from) ==
               /\ onGrid(from) /\ onGrid(m.basePosition)
               /\ m.basePosition \in reached({from}, {from})
           served == SelectSeq(m.spawnPoints, routed)
       IN /\ Len(m.paths) = Len(served)
          /\ \A i \in 1..Len(m.paths) :
               LET path == m.paths[i]
               IN /\ Len(path) >= 1
                  /\ path[1] = served[i]
                  /\ path[Len(path)] = m.basePosition
                  /\ \A k \in 2..Len(path) :
                       /\ adjacent(path[k - 1], path[k])
                       /\ onGrid(path[k]) /\ walkable(path[k])
                       /\ \A j \in 1..(k - 1) : path[j] # path[k]

\* of three spawn points two have a route, the second of them around a
\* blocked tile of the path row
C32_TwoRoutesOneDetour ==
    /\ op.name = "findMultiplePaths"
    /\ Len(game.map.spawnPoints) = 3
    /\ Len(game.map.paths) = 2
    /\ game.map.basePosition = basePosition
    /\ game.map.paths[2][1] = spawnPoint
    /\ Len(game.map.paths[2]) = MapWidth + 2

----------------------------------------------------------------------------
\* C33: findPath(start, end) returns a shortest route: when both ends are on
\* the grid and breadth-first search from start over 4-connected 'path' and
\* 'buildable' tiles reaches end in d steps, the result has d + 1 waypoints
\* (d steps); it is the empty sequence exactly when an end is off the grid or
\* the search does not reach end.  The tile of start itself is not tested,
\* as in the paths the map stores.
C33_ShortestRoute ==
    op.name = "findPath" =>
       LET m == game.map
           onGrid(p) == p[1] >= 0 /\ p[1] < MapWidth /\ p[2] >= 0 /\ p[2] < MAP_HEIGHT
           cells == {<<x, y>> : x \in 0..(MapWidth - 1), y \in 0..(MAP_HEIGHT - 1)}
           step(p, q) ==
               /\ m.tiles[q[2]][q[1]] \in {"path", "buildable"}
               /\ (p[1] - q[1]) * (p[1] - q[1]) + (p[2] - q[2]) * (p[2] - q[2]) = 1
           RECURSIVE steps(_, _, _)
           steps(frontier, seen, n) ==
               IF op.to \in frontier THEN n
               ELSE LET next == {q \in cells \ seen : \E p \in frontier : step(p, q)}
                    IN IF next = {} THEN -1 ELSE steps(next, seen \cup next, n + 1)
           d == IF onGrid(op.pos) /\ onGrid(op.to) THEN steps({op.pos}, {op.pos}, 0) ELSE -1
       IN IF d = -1 THEN op.path = <<>> ELSE Len(op.path) = d + 1

\* a route from the spawn point to the base that is two steps longer than
\* the straight one
C33_WentAround ==
    /\ op.name = "findPath"
    /\ op.pos = spawnPoint
    /\ op.to = basePosition
    /\ Len(op.path) = MapWidth + 2

----------------------------------------------------------------------------
\* C34: money is never negative, whatever placeTower, startNextWave,
\* togglePause, setGameSpeed and advanceTick calls have been made.
C34_MoneyNotNegative == game.money >= 0

\* a placement was refused because the money left did not cover the tower
C34_RefusedForMoney ==
    /\ op.name = "placeTower"
    /\ op.type \in TOWER_TYPES
    /\ game.money < TOWER_DEFINITIONS(op.type).baseCost
    /\ \A i \in 1..Len(game.towers) : game.towers[i].tile # op.pos

----------------------------------------------------------------------------
\* C35: currentWave stays within 0..totalWaves; only startNextWave changes
\* it, by exactly 1 when it is below totalWaves, and a startNextWave at
\* totalWaves leaves currentWave and state as they were; advanceTick,
\* placeTower, togglePause and setGameSpeed never change it.
C35_WaveNumberSteps ==
    [][/\ game.currentWave >= 0 /\ game.currentWave <= game.totalWaves
       /\ game'.currentWave >= 0 /\ game'.currentWave <= game'.totalWaves
       /\ (game'.currentWave # game.currentWave => op'.name = "startNextWave")
       /\ (op'.name = "startNextWave" =>
             IF game.currentWave < game.totalWaves
             THEN game'.currentWave = game.currentWave + 1
             ELSE game'.currentWave = game.currentWave /\ game'.state = game.state)
       /\ (op'.name \in {"advanceTick", "placeTower", "togglePause", "setGameSpeed"} =>
             game'.currentWave = game.currentWave)]_vars

\* startNextWave was called on a won game with every wave started: had it
\* started a wave, the state would be 'playing'
C35_StartAfterLastWave ==
    /\ op.name = "startNextWave"
    /\ game.currentWave = game.totalWaves
    /\ game.state = "victory"

----------------------------------------------------------------------------
\* C36: whenever the state is 'victory', every wave of the wave list is
\* marked complete.
C36_VictoryAfterAllWaves ==
    game.state = "victory" => \A i \in 1..Len(game.waves) : game.waves[i].isComplete

\* the game is won with all lives left and no wave of the list has spawned
\* a mob
C36_WonWithoutWaves ==
    /\ game.state = "victory"
    /\ game.lives = createInitialGame.lives
    /\ \A i \in 1..Len(game.waves) :
          ~game.waves[i].isComplete /\ game.waves[i].currentSpawnCount = 0

----------------------------------------------------------------------------
\* C37: no wave is abandoned.  updateWaves spawns from waves[currentWave]
\* only (the list counted from 0), so a wave can still become complete only
\* while it is that wave: every wave that is active and not complete is the
\* wave being spawned, also after a startNextWave.
C37_NoWaveAbandoned ==
    \A i \in 1..Len(game.waves) :
       game.waves[i].isActive /\ ~game.waves[i].isComplete => i = game.currentWave + 1

\* a wave left behind by startNextWave stays as it is in every later step:
\* no command and no tick changes the progress of a wave below waves[currentWave]
C37_LeftBehindForGood ==
    [][\A i \in 1..game.currentWave :
         /\ game'.waves[i].isComplete = game.waves[i].isComplete
         /\ game'.waves[i].currentEntryIndex = game.waves[i].currentEntryIndex
         /\ game'.waves[i].currentSpawnCount = game.waves[i].currentSpawnCount]_vars

\* startNextWave was called while a wave had spawned a part of its mobs; the
\* next wave has spawned since and the earlier one is as it was left, active
\* and incomplete
C37_LeftHalfSpawned ==
    \E i \in 1..game.currentWave :
       /\ game.waves[i].isActive /\ ~game.waves[i].isComplete
       /\ game.waves[i].currentSpawnCount > 0
       /\ game.waves[i].currentSpawnCount < WAVE_DEFINITIONS[i].entries[1].count
       /\ game.waves[i].currentEntryIndex = 0
       /\ game.waves[game.currentWave + 1].currentSpawnCount > 0

----------------------------------------------------------------------------
\* C38: the store's pauseGame and resumeGame are one-directional.  pauseGame
\* (the step that leaves isRunning false) on a playing or paused game never
\* leaves the game playing, and resumeGame (the step that leaves isRunning
\* true) on a playing or paused game never leaves it paused; so after them
\* isRunning = true is never with state 'paused' and isRunning = false never
\* with state 'playing'.
C38_PauseResumeOneWay ==
    [][op'.name = "togglePause" /\ game.state \in {"playing", "paused"}
         => IF store'.isRunning THEN game'.state # "paused"
                                ELSE game'.state # "playing"]_vars

\* pauseGame on a paused game in which time has passed: the game is playing
\* again and the store's loop is stopped
C38_PausedIntoPlaying ==
    /\ op.name = "togglePause" /\ op.from = "paused"
    /\ game.state = "playing" /\ ~store.isRunning
    /\ game.tickCount > 0

----------------------------------------------------------------------------
\* C39: after every advanceTick every mob left in the mob list is live and
\* well-formed: not dead, not at the end, 0 < hp <= maxHp and
\* 0 <= pathProgress < 1 (prog below the last waypoint); and a mob enters the
\* list, in the updateWaves of the tick, behind the mobs that were there, with
\* pathProgress 0, hp = maxHp and both flags false.
C39_MobsLiveAndWellFormed ==
    [][op'.name = "advanceTick" =>
         /\ \A i \in 1..Len(game'.mobs) :
               LET mob == game'.mobs[i]
               IN /\ ~mob.isDead /\ ~mob.reachedEnd
                  /\ 0 < mob.hp /\ mob.hp <= mob.maxHp
                  /\ 0 <= mob.prog /\ mob.prog < (PathLen - 1) * PosScale
         /\ \A r \in Rand :
               LET spawned == updateWaves([game EXCEPT !.time = game.time + op'.dt,
                                                       !.tickCount = game.tickCount + 1],
                                          r).mobs
               IN /\ Len(spawned) >= Len(game.mobs)
                  /\ SubSeq(spawned, 1, Len(game.mobs)) = game.mobs
                  /\ \A i \in Len(game.mobs) + 1 .. Len(spawned) :
                        /\ spawned[i].prog = 0
                        /\ spawned[i].hp = spawned[i].maxHp
                        /\ ~spawned[i].isDead /\ ~spawned[i].reachedEnd]_vars

\* a tick in which a mob died: the list it returns holds a wounded mob that
\* is on its way and a mob that entered the list in this tick
C39_KilledWoundedAndNew ==
    /\ op.name = "advanceTick" /\ op.killed > 0
    /\ \E i \in 1..Len(game.mobs) :
          game.mobs[i].hp < game.mobs[i].maxHp /\ game.mobs[i].prog > 0
    /\ \E i \in 1..Len(game.mobs) : game.mobs[i].id.t = game.time

----------------------------------------------------------------------------
\* C40: every spawned mob eventually leaves the game.  Under repeated
\* advanceTick calls with dt > 0, on the default map (a first path of
\* MapWidth >= 2 waypoints), a mob that is in the mob list is eventually not
\* in the list, however it is slowed.  A mob is named
\* by the time in its id; the mobs of the first wave are spawned from the
\* first tick on, one per spacing.
C40_EveryMobLeaves ==
    LET entry == WAVE_DEFINITIONS[1].entries[1]
        spawnTimes == {TimeScale \div 2 + j * entry.spacing : j \in 0..entry.count - 1}
    IN /\ [](\A i \in 1..Len(game.mobs) : game.mobs[i].id.t \in spawnTimes)
       /\ \A t \in spawnTimes :
             (\E i \in 1..Len(game.mobs) : game.mobs[i].id.t = t)
             ~> (\A i \in 1..Len(game.mobs) : game.mobs[i].id.t # t)

\* the last mob of the wave has reached the base in this tick, later than a
\* mob at full speed can: it walked under a slow
C40_LastMobLeftLate ==
    /\ op.name = "advanceTick" /\ op.reached = 1
    /\ game.mobs = <<>>
    /\ game.waves[1].isComplete
    /\ game.lives = createInitialGame.lives - WAVE_DEFINITIONS[1].entries[1].count
    /\ game.time > game.waves[1].nextSpawnTime + PathLen * TimeScale

\* no tick leaves a mob where it was: every mob that stays in the list has
\* moved forward
C40_NeverStalls ==
    [][op'.name = "advanceTick" =>
         \A i \in 1..Len(game'.mobs), j \in 1..Len(game.mobs) :
            game'.mobs[i].id = game.mobs[j].id => game'.mobs[i].prog > game.mobs[j].prog]_vars

====
